---- MODULE Spec2Model ----
(***************************************************************************)
(* Model of expensify-auto-login: the EmailMonitor polling protocol        *)
(* (src/email-monitor.ts), AutoLogin.login() and main() (src/auto-login.ts)*)
(* with the WebAutomation steps (src/IMPLEMENTATION_GUIDE.md, 562-828) as  *)
(* the browser boundary, and the second EmailMonitor of the repository     *)
(* (src/unnamed/part_001) as LegacySpec.  Time is counted in seconds.      *)
(* The functions of the program that compute on strings and pages          *)
(* (stripEmailTag, getEmailPassword, the code extraction, enterEmail and   *)
(* enterCode) are applied to bounded inputs in TagSpec, CredSpec,          *)
(* ExtractSpec and WebSpec (with waitForLoginSuccess).  A string is a      *)
(* sequence of characters.  TieSpec executes the handlers of one fetch     *)
(* twice, each time in an order of its own.                                *)
(* PromptSpec runs the promptPassword calls of getEmailPassword key by    *)
(* key, and RepeatSpec adds a second waitForCode call to Spec.             *)
(***************************************************************************)
EXTENDS Integers, Sequences, FiniteSets, TLC

\* ---- bounds of the model ------------------------------------------------
MaxMsgs == 2          \* messages that exist in the mailbox during one run
MaxDate == 2          \* Date headers range over 1..MaxDate
MaxWaitTime == 2      \* the maxWaitTime argument of waitForCode, in seconds
MaxFetchTime == 1     \* a fetch emits its messages less than this long after the cycle began
MaxEmailLen == 5      \* length of a configured email address
MaxSubject == 3       \* length of a subject line
MaxText == 7          \* length of a text or HTML body
MaxPwLen == 3         \* symbols of a password (variable, keychain entry, typed)
MaxKeys == 3          \* keys other than Enter pressed at one prompt

\* ---- program constants --------------------------------------------------
PollInterval == 2     \* setTimeout(checkEmail, 2000)
UidTimeout == 1       \* setTimeout(() => resolveUid(undefined), 1000)

\* wall-clock time at process start: the messages already in the mailbox
\* carry Date headers up to it
StartClock == MaxDate

NoDate == 0           \* parsed.date === undefined
NoTime == 0           \* sinceTime === undefined
NoCode == 0           \* null / no match
AppPasswordLen == 16  \* cleanPassword.length === 16
CodeLen == 6          \* /(\d{6})/: the length of the digit run the body rule takes

VARIABLES
    mode,          \* "main": bun run auto-login.ts; "api": waitForCode called directly
    cfgOk,         \* EMAIL and APP_PASSWORD present
    sinceTime,     \* third argument of waitForCode (NoTime when omitted)
    now,           \* Date.now()
    mailbox,       \* INBOX: sequence of messages, the UID is the index
    mainPc,        \* position of main()
    exitCode,      \* -1 while running, else the argument of process.exit
    loginPc,       \* position of AutoLogin.login()
    loginError,    \* error login() threw ("none" otherwise)
    raisedError,   \* error raised by the failing component
    enteredCode,   \* code passed to WebAutomation.enterCode
    connected,     \* EmailMonitor.connected
    connects,      \* number of imap.connect() calls
    connectMsg,    \* message of the "error" event connect() received
    ends,          \* number of imap.end() calls
    browser,       \* WebAutomation.browser: "none", "open", "closed"
    wfc,           \* waitForCode promise: idle, connecting, pending, code, or the error
    wfcCode,       \* value waitForCode resolved with
    startTime,     \* startTime of waitForCode
    settledAt,     \* time at which waitForCode settled
    cyc,           \* position of the poll cycle
    timerDue,      \* due time of setTimeout(checkEmail, 2000)
    cycleStart,    \* time at which the current cycle passed the deadline check
    cycleEnd,      \* time at which the last completed cycle resolved
    cycles,        \* number of cycles that queried the mailbox
    results,       \* UIDs returned by imap.search in this cycle
    pendingCount,  \* findCode: pendingCount
    resolved,      \* findCode: resolved
    validEmails,   \* findCode: validEmails
    phase,         \* per UID: idle, wait, body, parse, done, skipped
    uidDue,        \* per UID: due time of the uidPromise fallback timer, while it matters
    fetchOver,     \* the fetch emits nothing more: "no", "end", "error"
    flagCmds,      \* addFlags commands issued, in order (UIDs)
    flagAt,        \* per flag command: fetched messages not yet processed when issued
    flagDone,      \* number of addFlags commands the server has answered
    cfgEmail,      \* config.email
    imapUser,      \* the user of the EmailMonitor's IMAP configuration
    submittedEmail, \* the argument of WebAutomation.enterEmail
    page,          \* the page WebAutomation acts on: what its locators match
    web,           \* the WebAutomation method called, its result and its effects
    message,       \* a parsed message: subject, text and html
    extraction,    \* what lines 286-303 extracted from it, and by which rule
    credIn,        \* getEmailPassword: APP_PASSWORD, useKeychain, process.platform
    cred,          \* getEmailPassword: position, sources consulted, result, warning
    fetched,       \* the messages of one fetch, in the order the fetch emits them
    runs,          \* two executions of the cycle on them: validEmails, handlers left, winner
    consumed,      \* UIDs of the messages whose code earlier waitForCode calls returned
    stdinListeners, \* promptPassword: the "data" listeners on process.stdin, in order
    tty            \* promptPassword: the prompt shown, the keys typed, what was written

vars == <<mode, cfgOk, sinceTime, now, mailbox, mainPc, exitCode, loginPc,
          loginError, raisedError, enteredCode, connected, connects, connectMsg,
          ends, browser, wfc, wfcCode, startTime, settledAt, cyc, timerDue, cycleStart,
          cycleEnd, cycles, results, pendingCount, resolved, validEmails,
          phase, uidDue, fetchOver, flagCmds, flagAt, flagDone,
          cfgEmail, imapUser, submittedEmail, page, web, message, extraction,
          credIn, cred, fetched, runs, consumed, stdinListeners, tty>>

procVars == <<mainPc, exitCode, loginPc, loginError, raisedError, enteredCode, browser>>
connVars == <<connected, connects, connectMsg, ends>>
wfcVars == <<wfc, wfcCode, startTime, settledAt>>
cycVars == <<cyc, timerDue, cycleStart, cycleEnd, cycles>>
fetchVars == <<results, pendingCount, resolved, validEmails, phase, uidDue, fetchOver>>
flagVars == <<flagCmds, flagAt, flagDone>>
tagVars == <<cfgEmail, imapUser, submittedEmail>>
\* the variables of the functions applied on their own
webVars == <<page, web>>
extractVars == <<message, extraction>>
credVars == <<credIn, cred>>
tieVars == <<fetched, runs>>
repeatVars == <<consumed>>
promptVars == <<stdinListeners, tty>>
unitVars == <<tagVars, webVars, extractVars, credVars, tieVars, repeatVars, promptVars>>
inputVars == <<mode, cfgOk, sinceTime, unitVars>>

UIDs == 1..MaxMsgs

\* ---- messages -----------------------------------------------------------
\* kind of a message: which extraction rule matches, or "bad" when
\* simpleParser rejects.
Kinds == {"subject", "body", "both", "none", "bad"}

\* digit run after "Expensify magic code:" in the subject of message u
SubjectCode(u, kind) == IF kind \in {"subject", "both"} THEN 10 * u + 1 ELSE NoCode
\* first six-digit run in the text/html body of message u
BodyCode(u, kind) == IF kind \in {"body", "both"} THEN 10 * u + 2 ELSE NoCode

\* lines 286-303: subject rule first, body rule only when it does not match
ExtractCode(u, kind) ==
    IF SubjectCode(u, kind) # NoCode THEN SubjectCode(u, kind)
    ELSE BodyCode(u, kind)

\* old: the message was already in the mailbox when the run started
Message == [date : 0..MaxDate, kind : Kinds, seen : BOOLEAN, old : BOOLEAN]

\* search criteria UNSEEN / FROM / SUBJECT: every modelled message is from the
\* sender and carries the subject label, so the predicate is "unread"
SearchUnseen(box) == {u \in 1..Len(box) : ~box[u].seen}

\* ---- validEmails.sort((a, b) => b.date.getTime() - a.date.getTime()) ----
\* stable insertion of e into a sequence sorted by descending date
RECURSIVE InsertDesc(_, _)
InsertDesc(s, e) ==
    IF s = <<>> THEN <<e>>
    ELSE IF e.date > Head(s).date THEN <<e>> \o s
    ELSE <<Head(s)>> \o InsertDesc(Tail(s), e)

\* the sort forgotten: validEmails stays in completion order
SortOmitted(s) == s

RECURSIVE SortByDateDesc(_)
SortByDateDesc(s) ==
    IF s = <<>> THEN <<>>
    ELSE InsertDesc(SortByDateDesc(SubSeq(s, 1, Len(s) - 1)), s[Len(s)])

\* ---- conditions of findCode and checkEmail -------------------------------
\* the comparison of line 256 the wrong way round
IsStaleReversed(date, since) == since # NoTime /\ date # NoDate /\ date > since

\* line 256: sinceTime && emailDate && emailDate < sinceTime
IsStale(date, since) == since # NoTime /\ date # NoDate /\ date < since

\* a candidate accepted whether or not the message has a date
QualifiesUndated(code, date) == code # NoCode

\* line 305: code && emailDate && uid
Qualifies(code, date) == code # NoCode /\ date # NoDate

\* the deadline test one poll interval late
DeadlinePassedLate(t, start) == t - start > MaxWaitTime + PollInterval

\* line 131: Date.now() - startTime > maxWaitTime
DeadlinePassed(t, start) == t - start > MaxWaitTime

\* the decision without its `!resolved` guard
MayDecideUnguarded(count, res) == count = 0

\* the decision taken by the first handler that finishes
MayDecideAtOnce(count, res) == ~res

\* the decision one message early
MayDecideEarly(count, res) == count <= 1 /\ ~res

\* lines 220, 259, 310, 338: pendingCount === 0 && !resolved
MayDecide(count, res) == count = 0 /\ ~res

\* src/auto-login.ts line 45: login() passes no sinceTime to waitForCode
LoginSinceTime == NoTime

\* ---- initial state -------------------------------------------------------
\* unread messages the mailbox may hold when the run starts
\* (a message that yields no code, "none" or "bad", is given one date: its
\* date is never looked at after the staleness test; so is a message whose
\* code comes from the body or that matches both rules: lines 305-334 treat
\* its code as they treat one from the subject)
InitMessages ==
    [date : 0..MaxDate, kind : {"subject"}, seen : {FALSE}, old : {TRUE}]
    \cup [date : {1}, kind : {"body", "both", "none", "bad"}, seen : {FALSE}, old : {TRUE}]

\* The code never compares UIDs, so mailboxes that differ only in the order
\* of their initial messages behave alike; one order of each is kept.
Rank(m) ==
    5 * m.date + (CASE m.kind = "subject" -> 0 [] m.kind = "body" -> 1
                    [] m.kind = "both" -> 2 [] m.kind = "none" -> 3 [] OTHER -> 4)

InitMailboxes ==
    {b \in UNION {[1..n -> InitMessages] : n \in 0..MaxMsgs} :
        \A i, j \in 1..Len(b) : i < j => Rank(b[i]) <= Rank(b[j])}

\* no "error" event has been emitted by the connection
NoErrorEvent == {"none"}

\* the empty string; also a value that has not been set
Empty == <<>>

\* the variables of TagSpec when stripEmailTag is not the subject
TagIdle == cfgEmail = Empty /\ imapUser = Empty /\ submittedEmail = Empty

\* a page on which no locator matches
NoPage ==
    [emailSel |-> {}, url |-> {}, codeSel |-> {}, buttons |-> {}, clickFails |-> {},
     success |-> {}]

\* a WebAutomation method when called: nothing filled, nothing clicked or
\* pressed, no success indicator seen, nothing logged
Called(method) ==
    [call |-> method, result |-> "pending", filled |-> "none", submit |-> "none",
     tried |-> <<>>, clicked |-> "none", pressed |-> "none",
     indicator |-> "none", log |-> "none"]

\* the variables of WebSpec when no WebAutomation method is the subject
WebIdle == page = NoPage /\ web = Called("none")

\* a message with nothing in it
NoMessage == [subject |-> Empty, text |-> Empty, html |-> Empty]

\* nothing has been extracted yet
NotExtracted == [done |-> FALSE, code |-> Empty, rule |-> "none"]

\* the variables of ExtractSpec when the extraction is not the subject
ExtractIdle == message = NoMessage /\ extraction = NotExtracted

\* getEmailPassword before its first statement
NotResolved ==
    [pc |-> "start", consulted |-> <<>>, keychainHit |-> FALSE, secret |-> Empty,
     source |-> "none", warned |-> FALSE, stored |-> FALSE]

\* the variables of CredSpec when getEmailPassword is not the subject
CredIdle ==
    /\ credIn = [APP_PASSWORD |-> Empty, useKeychain |-> FALSE, platform |-> "linux"]
    /\ cred = NotResolved

\* an execution of a cycle that fetched nothing
NoRun == [valid |-> <<>>, pending |-> {}, best |-> 0]

\* the variables of TieSpec when the selection is not the subject
TieIdle == fetched = <<>> /\ runs = <<NoRun, NoRun>>

\* no earlier waitForCode call has returned a code
RepeatIdle == consumed = {}

\* no promptPassword call has been made
NoPrompt == [calls |-> 0, open |-> FALSE, typed |-> <<>>, out |-> <<>>, exited |-> FALSE]

\* the variables of PromptSpec when promptPassword is not the subject
PromptIdle == stdinListeners = <<>> /\ tty = NoPrompt

\* the variables of the specifications that are not the subject
LateIdle == RepeatIdle /\ PromptIdle

\* no function is applied on its own
UnitsIdle == TagIdle /\ WebIdle /\ ExtractIdle /\ CredIdle /\ TieIdle /\ LateIdle

\* the program state after construction
Constructed ==
    /\ now = StartClock
    /\ mainPc = "start"
    /\ exitCode = -1
    /\ loginPc = "none"
    /\ loginError = "none"
    /\ raisedError = "none"
    /\ enteredCode = NoCode
    /\ connected = FALSE
    /\ connects = 0
    /\ connectMsg = NoErrorEvent
    /\ ends = 0
    /\ browser = "none"
    /\ wfc = "idle"
    /\ wfcCode = NoCode
    /\ startTime = 0
    /\ settledAt = 0
    /\ cyc = "none"
    /\ timerDue = 0
    /\ cycleStart = 0
    /\ cycleEnd = 0
    /\ cycles = 0
    /\ results = {}
    /\ pendingCount = 0
    /\ resolved = FALSE
    /\ validEmails = <<>>
    /\ phase = [u \in UIDs |-> "idle"]
    /\ uidDue = [u \in UIDs |-> 0]
    /\ fetchOver = "no"
    /\ flagCmds = <<>>
    /\ flagAt = <<>>
    /\ flagDone = 0

\* the state after construction, the inputs apart
InitState ==
    /\ mailbox \in InitMailboxes
    /\ Constructed
    /\ UnitsIdle

Init ==
    /\ mode \in {"main", "api"}
    /\ cfgOk \in (IF mode = "main" THEN BOOLEAN ELSE {TRUE})
    /\ sinceTime \in (IF mode = "main" THEN {LoginSinceTime} ELSE {StartClock})
    /\ InitState

\* the process has not exited and has not been killed
Alive == mainPc \notin {"exited", "killed"}

\* ---- EmailMonitor.waitForCode, lines 127-154 -----------------------------
\* reject(...) of the waitForCode promise
WfcReject(kind) ==
    /\ wfc' = kind
    /\ settledAt' = now
    /\ UNCHANGED <<wfcCode, startTime>>

\* checkEmail up to its first await (lines 130-137): the deadline test, then
\* openInbox is called
CheckEmail(start) ==
    IF DeadlinePassed(now, start)
    THEN /\ wfc' = "timeout"
         /\ settledAt' = now
         /\ wfcCode' = wfcCode
         /\ cyc' = "done"
         /\ UNCHANGED <<cycleStart, cycles>>
    ELSE /\ wfc' = "pending"
         /\ cyc' = "openInbox"
         /\ cycleStart' = now
         /\ cycles' = cycles + 1
         /\ UNCHANGED <<settledAt, wfcCode>>

\* lines 127-128, 152-153: the promise executor records startTime and calls
\* checkEmail synchronously
StartWaiting ==
    /\ startTime' = now
    /\ CheckEmail(now)
    /\ UNCHANGED <<timerDue, cycleEnd>>

\* the timer of line 145 fires and runs checkEmail again
CheckEmailTimer ==
    /\ Alive
    /\ wfc = "pending"
    /\ cyc = "sleep"
    /\ now >= timerDue
    /\ CheckEmail(startTime)
    /\ UNCHANGED <<startTime, timerDue, cycleEnd>>
    /\ UNCHANGED <<inputVars, now, mailbox, procVars, connVars, fetchVars, flagVars>>

\* checkEmail is suspended at one of its awaits (lines 137-138); a promise
\* that has settled ignores every later resolve and reject
Awaiting == wfc = "pending" /\ cyc \in {"openInbox", "search", "fetch"}

\* a cycle that ends without a code fails the wait
FindCodeResolvedOrFailed(code) ==
    IF ~Awaiting THEN UNCHANGED <<wfcVars, cycVars>>
    ELSE /\ cycleEnd' = now
         /\ cyc' = "done"
         /\ settledAt' = now
         /\ wfc' = (IF code # NoCode THEN "code" ELSE "imapError")
         /\ wfcCode' = code
         /\ UNCHANGED <<startTime, timerDue, cycleStart, cycles>>

\* lines 138-146: the continuation of `await this.findCode(...)` once findCode
\* resolved with code (NoCode for null)
FindCodeResolved(code) ==
    IF ~Awaiting THEN UNCHANGED <<wfcVars, cycVars>>
    ELSE /\ cycleEnd' = now
         /\ IF code # NoCode
            THEN /\ wfc' = "code"
                 /\ wfcCode' = code
                 /\ settledAt' = now
                 /\ cyc' = "done"
                 /\ UNCHANGED timerDue
            ELSE /\ cyc' = "sleep"
                 /\ timerDue' = now + PollInterval
                 /\ UNCHANGED <<wfc, wfcCode, settledAt>>
         /\ UNCHANGED <<startTime, cycleStart, cycles>>

\* a rejection that arms the poll timer all the same
FindCodeRejectedRearmed ==
    IF ~Awaiting THEN UNCHANGED <<wfcVars, cycVars>>
    ELSE /\ WfcReject("imapError")
         /\ cyc' = "sleep"
         /\ timerDue' = now + PollInterval
         /\ cycleEnd' = now
         /\ UNCHANGED <<cycleStart, cycles>>

\* lines 147-149: openInbox or findCode rejected
FindCodeRejected ==
    IF ~Awaiting THEN UNCHANGED <<wfcVars, cycVars>>
    ELSE /\ WfcReject("imapError")
         /\ cyc' = "done"
         /\ cycleEnd' = now
         /\ UNCHANGED <<timerDue, cycleStart, cycles>>

\* lines 157-167: the openBox callback; on success findCode issues the search
OpenInboxDone(ok) ==
    /\ Alive
    /\ wfc = "pending"
    /\ cyc = "openInbox"
    /\ IF ok
       THEN /\ cyc' = "search"
            /\ UNCHANGED <<wfcVars, timerDue, cycleStart, cycleEnd, cycles>>
       ELSE FindCodeRejected
    /\ UNCHANGED <<inputVars, now, mailbox, procVars, connVars, fetchVars, flagVars>>

\* ---- EmailMonitor.findCode, lines 169-373 --------------------------------
\* lines 182-199: the search callback
SearchDone(ok) ==
    /\ Alive
    /\ wfc = "pending"
    /\ cyc = "search"
    /\ IF ~ok
       THEN /\ FindCodeRejected
            /\ UNCHANGED fetchVars
       ELSE LET found == SearchUnseen(mailbox) IN
            IF found = {}
            THEN /\ FindCodeResolved(NoCode)
                 /\ UNCHANGED fetchVars
            ELSE /\ cyc' = "fetch"
                 /\ results' = found
                 /\ pendingCount' = Cardinality(found)
                 /\ resolved' = FALSE
                 /\ validEmails' = <<>>
                 /\ phase' = [u \in UIDs |-> IF u \in found THEN "wait" ELSE "idle"]
                 /\ uidDue' = [u \in UIDs |-> 0]
                 /\ fetchOver' = "no"
                 /\ UNCHANGED <<wfcVars, timerDue, cycleStart, cycleEnd, cycles>>
    /\ UNCHANGED <<inputVars, now, mailbox, procVars, connVars, flagVars>>

\* lines 219-241, 258-282, 309-334, 337-359: pendingCount--, then the
\* decision once every fetched message has been processed.  valid is
\* validEmails after the handler's push, ph the phase message u ends in.
\* The fallback timer of u has no effect any more (its uidPromise is
\* settled) and is forgotten.
Finish(u, valid, ph) ==
    /\ pendingCount' = pendingCount - 1
    /\ phase' = [phase EXCEPT ![u] = ph]
    /\ IF MayDecide(pendingCount - 1, resolved)
       THEN /\ resolved' = TRUE
            /\ IF Len(valid) > 0
               THEN LET sorted == SortByDateDesc(valid)
                        best == sorted[1]
                    IN /\ validEmails' = sorted
                       /\ flagCmds' = Append(flagCmds, best.uid)
                       /\ flagAt' = Append(flagAt,
                             Cardinality({v \in results : phase'[v] \notin {"done", "skipped"}}))
                       /\ FindCodeResolved(best.code)
               ELSE /\ validEmails' = valid
                    /\ UNCHANGED <<flagCmds, flagAt>>
                    /\ FindCodeResolved(NoCode)
       ELSE /\ validEmails' = valid
            /\ UNCHANGED <<resolved, flagCmds, flagAt>>
            /\ UNCHANGED <<wfcVars, cycVars>>
    /\ uidDue' = [uidDue EXCEPT ![u] = 0]
    /\ UNCHANGED <<results, fetchOver, flagDone>>

\* lines 201-214: the fetch emits "message" and the message its "body": the
\* uidPromise is created with its fallback timer and the body handler
\* suspends on `await uidPromise`
FetchMessage(u) ==
    /\ Alive
    /\ cyc = "fetch"
    /\ fetchOver = "no"
    /\ now - cycleStart < MaxFetchTime
    /\ phase[u] = "wait"
    /\ phase' = [phase EXCEPT ![u] = "body"]
    /\ uidDue' = [uidDue EXCEPT ![u] = now + UidTimeout]
    /\ UNCHANGED <<results, pendingCount, resolved, validEmails, fetchOver>>
    /\ UNCHANGED <<inputVars, now, mailbox, procVars, connVars, wfcVars, cycVars, flagVars>>

\* lines 204-206, 214-217, 246: "attributes" delivers the UID before the
\* fallback timer, which has no effect from then on; the body handler
\* resumes and starts simpleParser
FetchAttributes(u) ==
    /\ Alive
    /\ fetchOver = "no"
    /\ phase[u] = "body"
    /\ phase' = [phase EXCEPT ![u] = "parse"]
    /\ uidDue' = [uidDue EXCEPT ![u] = 0]
    /\ UNCHANGED <<results, pendingCount, resolved, validEmails, fetchOver>>
    /\ UNCHANGED <<inputVars, now, mailbox, procVars, connVars, wfcVars, cycVars, flagVars>>

\* a fallback timer whose message is parsed and kept as a candidate all the same
UidTimerFiresKeeps(u) ==
    /\ Alive
    /\ phase[u] = "body"
    /\ now >= uidDue[u]
    /\ LET m == mailbox[u]
           code == ExtractCode(u, m.kind)
       IN IF Qualifies(code, m.date)
          THEN Finish(u, Append(validEmails, [uid |-> u, code |-> code, date |-> m.date]), "skipped")
          ELSE Finish(u, validEmails, "skipped")
    /\ UNCHANGED <<inputVars, now, mailbox, procVars, connVars>>

\* lines 209, 216-243: the fallback timer resolves the UID with undefined
\* and the message is skipped
UidTimerFires(u) ==
    /\ Alive
    /\ phase[u] = "body"
    /\ now >= uidDue[u]
    /\ Finish(u, validEmails, "skipped")
    /\ UNCHANGED <<inputVars, now, mailbox, procVars, connVars>>

\* lines 246-334 (simpleParser resolved) and 335-360 (it rejected)
ParseDone(u) ==
    /\ Alive
    /\ phase[u] = "parse"
    /\ LET m == mailbox[u]
           code == ExtractCode(u, m.kind)
       IN IF m.kind = "bad" THEN Finish(u, validEmails, "done")
          ELSE IF IsStale(m.date, sinceTime) THEN Finish(u, validEmails, "done")
          ELSE IF Qualifies(code, m.date)
               THEN Finish(u, Append(validEmails, [uid |-> u, code |-> code, date |-> m.date]), "done")
               ELSE Finish(u, validEmails, "done")
    /\ UNCHANGED <<inputVars, now, mailbox, procVars, connVars>>

\* lines 364-369: the fetch emits "error"
FetchError ==
    /\ Alive
    /\ cyc \in {"fetch", "sleep", "done"}
    /\ results # {}
    /\ fetchOver = "no"
    /\ fetchOver' = "error"
    /\ IF ~resolved
       THEN /\ resolved' = TRUE
            /\ FindCodeRejected
       ELSE UNCHANGED <<resolved, wfcVars, cycVars>>
    /\ UNCHANGED <<results, pendingCount, validEmails, phase, uidDue>>
    /\ UNCHANGED <<inputVars, now, mailbox, procVars, connVars, flagVars>>

\* the fetch ends (its "end" event has no listener) although some message or
\* attribute event was never emitted, e.g. a message expunged after the search
FetchEnd ==
    /\ Alive
    /\ cyc = "fetch"
    /\ fetchOver = "no"
    /\ \E u \in results : phase[u] \in {"wait", "body"}
    /\ fetchOver' = "end"
    /\ UNCHANGED <<results, pendingCount, resolved, validEmails, phase, uidDue>>
    /\ UNCHANGED <<inputVars, now, mailbox, procVars, connVars, wfcVars, cycVars, flagVars>>

\* the server answers an addFlags command (lines 227-233, 268-274, 319-325,
\* 345-351): on success the message is \Seen, on failure only a warning
FlagAnswered(ok) ==
    /\ flagDone < Len(flagCmds)
    /\ flagDone' = flagDone + 1
    /\ mailbox' = IF ok THEN [mailbox EXCEPT ![flagCmds[flagDone + 1]].seen = TRUE]
                  ELSE mailbox
    /\ UNCHANGED <<flagCmds, flagAt>>
    /\ UNCHANGED <<inputVars, now, procVars, connVars, wfcVars, cycVars, fetchVars>>

\* ---- EmailMonitor.connect and disconnect ---------------------------------
\* the substrings of err.message that connect() looks for (lines 42-43, 69-71)
ErrorPhrases ==
    {"Application-specific password required", "ALERT", "185833",
     "Invalid credentials", "AUTHENTICATIONFAILED", "authentication"}

\* what the "error" event of the connection says: the phrases its message
\* contains
ConnectFailures == SUBSET ErrorPhrases

\* lines 41-44
IndicatesAppPassword(msg) ==
    \/ "Application-specific password required" \in msg
    \/ "ALERT" \in msg /\ "185833" \in msg

\* lines 68-72
IndicatesAuthFailure(msg) ==
    \/ "Invalid credentials" \in msg
    \/ "AUTHENTICATIONFAILED" \in msg
    \/ "authentication" \in msg

\* the two tests of connect() in the other order
ConnectErrorAuthFirst(failure) ==
    IF IndicatesAuthFailure(failure) THEN "authenticationError"
    ELSE IF IndicatesAppPassword(failure) THEN "appPasswordError"
    ELSE "connectionError"

\* lines 37-109: the error connect() rejects with; "connectionError" stands
\* for the error of the event itself (reject(err), line 108)
ConnectError(failure) ==
    IF IndicatesAppPassword(failure) THEN "appPasswordError"
    ELSE IF IndicatesAuthFailure(failure) THEN "authenticationError"
    ELSE "connectionError"

\* a connection opened whether or not there is one
NeedsConnectAlways(c) == TRUE

\* lines 29 and 123: connect() returns at once when connected, and
\* waitForCode calls it only when not connected
NeedsConnect(c) == ~c

\* lines 376-377: this.imap.end() is called only when connected
Ends(c, n) == IF c THEN n + 1 ELSE n

\* disconnect() that leaves the connection open
DisconnectOmitted(c) == c

\* lines 375-381
Disconnect(c) == IF c THEN FALSE ELSE c

\* close() that leaves the browser open
CloseOmitted(b) == b

\* lines 60-62 of auto-login.ts and 817-822 of the guide: WebAutomation.close
Close(b) == IF b = "open" THEN "closed" ELSE b

\* the exit codes exchanged
ExitStatusSwapped(reason) == IF reason = "interrupted" THEN 1 ELSE 0

\* src/auto-login.ts lines 98, 118, 124: the argument of process.exit
ExitStatus(reason) == IF reason = "interrupted" THEN 0 ELSE 1

\* ---- AutoLogin.login, src/auto-login.ts lines 36-58 ----------------------
\* lines 52-54: the catch clause rethrows the error it caught
Rethrow(e) == e

\* the failure of a step passed over: login() goes on to its last step
LoginFailIgnored(e) ==
    /\ raisedError' = e
    /\ loginPc' = "waitForLoginSuccess"
    /\ UNCHANGED <<loginError, mainPc, exitCode, enteredCode, connected, connects, ends>>

\* lines 52-57: a step failed with e: catch, finally, and main's catch clause
\* is entered
LoginFail(e) ==
    /\ raisedError' = e
    /\ loginError' = Rethrow(e)
    /\ loginPc' = "threw"
    /\ connected' = Disconnect(connected)
    /\ ends' = Ends(connected, ends)
    /\ mainPc' = "catch"
    /\ UNCHANGED <<exitCode, enteredCode, connects>>

\* lines 86-111 and AutoLogin's constructor: configuration check, then
\* login() runs up to `await this.emailMonitor.connect()`
MainStart ==
    /\ mode = "main"
    /\ mainPc = "start"
    /\ IF ~cfgOk
       THEN /\ mainPc' = "exited"
            /\ exitCode' = ExitStatus("configMissing")
            /\ UNCHANGED <<loginPc, connects>>
       ELSE /\ mainPc' = "login"
            /\ IF NeedsConnect(connected)
               THEN loginPc' = "connect" /\ connects' = connects + 1
               ELSE loginPc' = "init" /\ UNCHANGED connects
            /\ UNCHANGED exitCode
    /\ UNCHANGED <<loginError, raisedError, enteredCode, browser, connected, connectMsg, ends>>
    /\ UNCHANGED <<inputVars, now, mailbox, wfcVars, cycVars, fetchVars, flagVars>>

\* line 40 with connect() lines 32-36: "ready", then webAutomation.init is called
LoginConnectReady ==
    /\ mainPc = "login"
    /\ loginPc = "connect"
    /\ connected' = TRUE
    /\ loginPc' = "init"
    /\ UNCHANGED <<mainPc, exitCode, loginError, raisedError, enteredCode, browser, connects,
                   connectMsg, ends>>
    /\ UNCHANGED <<inputVars, now, mailbox, wfcVars, cycVars, fetchVars, flagVars>>

\* line 40 with connect() lines 37-109: "error"
LoginConnectError(failure) ==
    /\ mainPc = "login"
    /\ loginPc = "connect"
    /\ connectMsg' = failure
    /\ LoginFail(ConnectError(failure))
    /\ UNCHANGED browser
    /\ UNCHANGED <<inputVars, now, mailbox, wfcVars, cycVars, fetchVars, flagVars>>

\* line 41: WebAutomation.init (guide lines 568-582)
WebInit(ok) ==
    /\ mainPc = "login"
    /\ loginPc = "init"
    /\ IF ok
       THEN /\ browser' = "open"
            /\ loginPc' = "navigate"
            /\ UNCHANGED <<mainPc, exitCode, loginError, raisedError, enteredCode, connVars>>
       ELSE /\ LoginFail("launchError")
            /\ UNCHANGED <<browser, connectMsg>>
    /\ UNCHANGED <<inputVars, now, mailbox, wfcVars, cycVars, fetchVars, flagVars>>

\* line 42: WebAutomation.navigateToLogin (guide lines 584-588)
NavigateToLogin(ok) ==
    /\ mainPc = "login"
    /\ loginPc = "navigate"
    /\ IF ok
       THEN /\ loginPc' = "enterEmail"
            /\ UNCHANGED <<mainPc, exitCode, loginError, raisedError, enteredCode, connVars>>
       ELSE LoginFail("navigationError") /\ UNCHANGED connectMsg
    /\ UNCHANGED browser
    /\ UNCHANGED <<inputVars, now, mailbox, wfcVars, cycVars, fetchVars, flagVars>>

\* src/email-monitor.ts lines 118-128: waitForCode awaits connect() first
\* when not connected; when connected the executor of its promise runs at once
WaitForCode ==
    IF NeedsConnect(connected)
    THEN /\ wfc' = "connecting"
         /\ connects' = connects + 1
         /\ UNCHANGED <<wfcCode, startTime, settledAt, cycVars>>
    ELSE /\ StartWaiting
         /\ UNCHANGED connects

\* lines 43-45: WebAutomation.enterEmail (guide lines 594-662) returns true
\* or false (its result is not used) and waitForCode is called, or it throws
EnterEmail(outcome) ==
    /\ mainPc = "login"
    /\ loginPc = "enterEmail"
    /\ IF outcome \in {"entered", "alreadyLoggedIn"}
       THEN /\ loginPc' = "waitForCode"
            /\ WaitForCode
            /\ UNCHANGED <<mainPc, exitCode, loginError, raisedError, enteredCode,
                           connected, connectMsg, ends>>
       ELSE /\ LoginFail("notFoundError")
            /\ UNCHANGED <<wfcVars, cycVars, connectMsg>>
    /\ UNCHANGED browser
    /\ UNCHANGED <<inputVars, now, mailbox, fetchVars, flagVars>>

\* line 45: waitForCode rejected
LoginWaitFailed ==
    /\ mainPc = "login"
    /\ loginPc = "waitForCode"
    /\ wfc \notin {"idle", "connecting", "pending", "code"}
    /\ LoginFail(wfc)
    /\ UNCHANGED <<browser, connectMsg>>
    /\ UNCHANGED <<inputVars, now, mailbox, wfcVars, cycVars, fetchVars, flagVars>>

\* lines 45-48: waitForCode returned and WebAutomation.enterCode (guide
\* lines 667-746) ran
EnterCode(ok) ==
    /\ mainPc = "login"
    /\ loginPc = "waitForCode"
    /\ wfc = "code"
    /\ IF ok
       THEN /\ enteredCode' = wfcCode
            /\ loginPc' = "waitForLoginSuccess"
            /\ UNCHANGED <<mainPc, exitCode, loginError, raisedError, connVars>>
       ELSE LoginFail("notFoundError") /\ UNCHANGED connectMsg
    /\ UNCHANGED browser
    /\ UNCHANGED <<inputVars, now, mailbox, wfcVars, cycVars, fetchVars, flagVars>>

\* lines 49-57 and 113-121: waitForLoginSuccess (guide lines 751-784) returned,
\* finally disconnects, login() returns, main installs the SIGINT handler and
\* waits
WaitForLoginSuccess ==
    /\ mainPc = "login"
    /\ loginPc = "waitForLoginSuccess"
    /\ loginPc' = "returned"
    /\ connected' = Disconnect(connected)
    /\ ends' = Ends(connected, ends)
    /\ mainPc' = "idle"
    /\ UNCHANGED <<exitCode, loginError, raisedError, enteredCode, browser, connects, connectMsg>>
    /\ UNCHANGED <<inputVars, now, mailbox, wfcVars, cycVars, fetchVars, flagVars>>

\* ---- main, src/auto-login.ts lines 110-125 -------------------------------
\* the process ended: its promises, its timers and the closures of the poll
\* cycle are gone
ProcessGone ==
    /\ wfc' = "idle"
    /\ wfcCode' = NoCode
    /\ startTime' = 0
    /\ settledAt' = 0
    /\ cyc' = "none"
    /\ timerDue' = 0
    /\ UNCHANGED <<cycleStart, cycleEnd, cycles>>
    /\ results' = {}
    /\ pendingCount' = 0
    /\ resolved' = FALSE
    /\ validEmails' = <<>>
    /\ phase' = [u \in UIDs |-> "idle"]
    /\ uidDue' = [u \in UIDs |-> 0]
    /\ fetchOver' = "no"

\* line 123: await autoLogin.close()
MainCatchClose ==
    /\ mainPc = "catch"
    /\ browser' = Close(browser)
    /\ mainPc' = "catchClosed"
    /\ UNCHANGED <<exitCode, loginPc, loginError, raisedError, enteredCode>>
    /\ UNCHANGED <<inputVars, now, mailbox, connVars, wfcVars, cycVars, fetchVars, flagVars>>

\* line 124: process.exit(1)
MainCatchExit ==
    /\ mainPc = "catchClosed"
    /\ mainPc' = "exited"
    /\ exitCode' = ExitStatus("loginFailed")
    /\ ProcessGone
    /\ UNCHANGED <<loginPc, loginError, raisedError, enteredCode, browser>>
    /\ UNCHANGED <<inputVars, now, mailbox, connVars, flagVars>>

\* lines 115-119: SIGINT with the handler installed closes the browser and
\* exits 0; before that the signal has its default disposition and ends the
\* process
Interrupt ==
    /\ mode = "main"
    /\ mainPc \in {"login", "idle", "catch", "catchClosed"}
    /\ IF mainPc = "idle"
       THEN /\ browser' = Close(browser)
            /\ mainPc' = "exited"
            /\ exitCode' = ExitStatus("interrupted")
       ELSE /\ mainPc' = "killed"
            /\ UNCHANGED <<browser, exitCode>>
    /\ ProcessGone
    /\ UNCHANGED <<loginPc, loginError, raisedError, enteredCode>>
    /\ UNCHANGED <<inputVars, now, mailbox, connVars, flagVars>>

\* ---- waitForCode called directly, lines 118-128 --------------------------
\* a caller other than login() calls waitForCode on a new EmailMonitor
ApiCall ==
    /\ mode = "api"
    /\ mainPc = "start"
    /\ mainPc' = "api"
    /\ WaitForCode
    /\ UNCHANGED <<exitCode, loginPc, loginError, raisedError, enteredCode, browser, connected,
                   connectMsg, ends>>
    /\ UNCHANGED <<inputVars, now, mailbox, fetchVars, flagVars>>

\* lines 32-36 then 127-153
ApiConnectReady ==
    /\ wfc = "connecting"
    /\ connected' = TRUE
    /\ StartWaiting
    /\ UNCHANGED <<procVars, connects, connectMsg, ends>>
    /\ UNCHANGED <<inputVars, now, mailbox, fetchVars, flagVars>>

\* lines 37-109: connect() rejects and so does waitForCode
ApiConnectError(failure) ==
    /\ wfc = "connecting"
    /\ connectMsg' = failure
    /\ WfcReject(ConnectError(failure))
    /\ UNCHANGED <<procVars, connected, connects, ends, cycVars>>
    /\ UNCHANGED <<inputVars, now, mailbox, fetchVars, flagVars>>

\* ---- environment ---------------------------------------------------------
\* a timer that is due runs before the clock advances
TimerDue ==
    \/ wfc = "pending" /\ cyc = "sleep" /\ now >= timerDue
    \/ \E u \in UIDs : phase[u] = "body" /\ now >= uidDue[u]

\* the latest time by which every poll of the model has timed out
Horizon == MaxWaitTime + PollInterval + MaxFetchTime + UidTimeout

\* the fetch is over, no handler is running and no timer is set, yet
\* findCode has not resolved
Hung ==
    /\ wfc = "pending"
    /\ cyc = "fetch"
    /\ fetchOver = "end"
    /\ \A u \in results : phase[u] \notin {"body", "parse"}

\* time passes while the process waits: for the poll timer, for a UID, or
\* for fetch events that never come
Tick ==
    /\ Alive
    /\ ~TimerDue
    /\ \/ wfc = "pending" /\ cyc = "sleep"
       \/ \E u \in UIDs : phase[u] = "body"
       \/ Hung /\ now - startTime <= Horizon
    /\ now' = now + 1
    /\ UNCHANGED <<inputVars, mailbox, procVars, connVars, wfcVars, cycVars, fetchVars, flagVars>>

\* the service delivers the verification email
Arrive ==
    /\ Alive
    /\ wfc = "pending"
    /\ Len(mailbox) < MaxMsgs
    /\ mailbox' = Append(mailbox, [date |-> now, kind |-> "subject", seen |-> FALSE, old |-> FALSE])
    /\ UNCHANGED <<inputVars, now, procVars, connVars, wfcVars, cycVars, fetchVars, flagVars>>

Next ==
    \/ MainStart
    \/ LoginConnectReady
    \/ \E f \in ConnectFailures : LoginConnectError(f)
    \/ \E ok \in BOOLEAN : WebInit(ok)
    \/ \E ok \in BOOLEAN : NavigateToLogin(ok)
    \/ \E o \in {"entered", "alreadyLoggedIn", "notFound"} : EnterEmail(o)
    \/ LoginWaitFailed
    \/ \E ok \in BOOLEAN : EnterCode(ok)
    \/ WaitForLoginSuccess
    \/ MainCatchClose
    \/ MainCatchExit
    \/ Interrupt
    \/ ApiCall
    \/ ApiConnectReady
    \/ \E f \in ConnectFailures : ApiConnectError(f)
    \/ CheckEmailTimer
    \/ \E ok \in BOOLEAN : OpenInboxDone(ok)
    \/ \E ok \in BOOLEAN : SearchDone(ok)
    \/ \E u \in UIDs : FetchMessage(u)
    \/ \E u \in UIDs : FetchAttributes(u)
    \/ \E u \in UIDs : UidTimerFires(u)
    \/ \E u \in UIDs : ParseDone(u)
    \/ FetchError
    \/ FetchEnd
    \/ \E ok \in BOOLEAN : FlagAnswered(ok)
    \/ Tick
    \/ Arrive

Spec == Init /\ [][Next]_vars

\* every step but the interrupt: the callbacks the event loop runs and the
\* answers and silences of the mail server
Progress == Next /\ ~Interrupt

\* the event loop runs a callback that is ready; the user need not interrupt
FairSpec == Spec /\ WF_vars(Progress)

\* ---- the EmailMonitor of src/unnamed/part_001 ----------------------------
\* results.slice(-1), results[results.length - 1]: the last UID found
LastOf(found) == CHOOSE u \in found : \A v \in found : v <= u

\* part_001 lines 174-189: the search callback; only the last match is fetched
LegacySearchDone(ok) ==
    /\ wfc = "pending"
    /\ cyc = "search"
    /\ IF ~ok
       THEN /\ FindCodeRejected
            /\ UNCHANGED fetchVars
       ELSE LET found == SearchUnseen(mailbox) IN
            IF found = {}
            THEN /\ FindCodeResolved(NoCode)
                 /\ UNCHANGED fetchVars
            ELSE /\ cyc' = "fetch"
                 /\ results' = {LastOf(found)}
                 /\ resolved' = FALSE
                 /\ phase' = [u \in UIDs |-> IF u = LastOf(found) THEN "wait" ELSE "idle"]
                 /\ fetchOver' = "no"
                 /\ UNCHANGED <<pendingCount, validEmails, uidDue>>
                 /\ UNCHANGED <<wfcVars, timerDue, cycleStart, cycleEnd, cycles>>
    /\ UNCHANGED <<inputVars, now, mailbox, procVars, connVars, flagVars>>

\* part_001 lines 191-194: "message" and "body"; simpleParser starts
LegacyFetchMessage(u) ==
    /\ cyc = "fetch"
    /\ fetchOver = "no"
    /\ phase[u] = "wait"
    /\ phase' = [phase EXCEPT ![u] = "parse"]
    /\ UNCHANGED <<results, pendingCount, resolved, validEmails, uidDue, fetchOver>>
    /\ UNCHANGED <<inputVars, now, mailbox, procVars, connVars, wfcVars, cycVars, flagVars>>

\* part_001: `if (!resolved) { resolved = true; resolve(code); }`
LegacyResolve(code) ==
    IF ~resolved
    THEN /\ resolved' = TRUE
         /\ FindCodeResolved(code)
    ELSE UNCHANGED <<resolved, wfcVars, cycVars>>

\* part_001 lines 194-248: simpleParser settled.  The subject rule flags the
\* message and resolves; the body rule resolves without flagging.
LegacyParseDone(u) ==
    /\ phase[u] = "parse"
    /\ phase' = [phase EXCEPT ![u] = "done"]
    /\ LET kind == mailbox[u].kind IN
       IF kind = "bad"
       THEN /\ LegacyResolve(NoCode)
            /\ UNCHANGED <<flagCmds, flagAt>>
       ELSE IF SubjectCode(u, kind) # NoCode
       THEN /\ flagCmds' = Append(flagCmds, LastOf(results))
            /\ flagAt' = Append(flagAt, 0)
            /\ LegacyResolve(SubjectCode(u, kind))
       ELSE /\ LegacyResolve(BodyCode(u, kind))
            /\ UNCHANGED <<flagCmds, flagAt>>
    /\ UNCHANGED <<results, pendingCount, validEmails, uidDue, fetchOver, flagDone>>
    /\ UNCHANGED <<inputVars, now, mailbox, procVars, connVars>>

\* part_001 is called without sinceTime: waitForCode(fromEmail, maxWaitTime)
LegacyInit ==
    /\ mode = "api"
    /\ cfgOk = TRUE
    /\ sinceTime = NoTime
    /\ InitState

LegacyNext ==
    \/ ApiCall
    \/ ApiConnectReady
    \/ \E f \in ConnectFailures : ApiConnectError(f)
    \/ CheckEmailTimer
    \/ \E ok \in BOOLEAN : OpenInboxDone(ok)
    \/ \E ok \in BOOLEAN : LegacySearchDone(ok)
    \/ \E u \in UIDs : LegacyFetchMessage(u)
    \/ \E u \in UIDs : LegacyParseDone(u)
    \/ FetchError
    \/ FetchEnd
    \/ \E ok \in BOOLEAN : FlagAnswered(ok)
    \/ Tick
    \/ Arrive

LegacySpec == LegacyInit /\ [][LegacyNext]_vars

\* ---- strings -------------------------------------------------------------
\* the strings over an alphabet of at most n characters
Strings(alphabet, n) == UNION {[1..k -> alphabet] : k \in 0..n}

\* the smallest element of a non-empty set of positions
Least(S) == CHOOSE i \in S : \A j \in S : i <= j

\* the variables of the program proper, untouched while a function is
\* applied on its own
mainVars == <<mode, cfgOk, sinceTime, now, mailbox, procVars, connVars,
              wfcVars, cycVars, fetchVars, flagVars>>

\* the program proper at rest
MainIdle ==
    /\ mode = "unit"
    /\ cfgOk = TRUE
    /\ sinceTime = NoTime
    /\ mailbox = <<>>
    /\ Constructed

\* ---- stripEmailTag, src/auto-login.ts lines 13-16 ------------------------
EmailChars == {"u", "+", "@"}

\* the positions at which /\+[^@]+@/ matches: a "+", at least one character
\* that is not "@", then "@"
TagMatches(email) ==
    {i \in 1..Len(email) :
        /\ email[i] = "+"
        /\ i + 1 <= Len(email)
        /\ email[i + 1] # "@"
        /\ \E j \in (i + 2)..Len(email) : email[j] = "@"}

\* the tag kept
stripEmailTagOmitted(email) == email

\* line 15: email.replace(/\+[^@]+@/, '@'): the first match, which runs up
\* to the next "@", is replaced by "@"
stripEmailTag(email) ==
    IF TagMatches(email) = {} THEN email
    ELSE LET i == Least(TagMatches(email))
             j == Least({k \in (i + 2)..Len(email) : email[k] = "@"})
         IN SubSeq(email, 1, i - 1) \o <<"@">> \o SubSeq(email, j + 1, Len(email))

\* lines 23-34: the constructor of AutoLogin builds the EmailMonitor with
\* the stripped address as its user
Construct ==
    /\ imapUser = Empty
    /\ imapUser' = stripEmailTag(cfgEmail)
    /\ UNCHANGED <<cfgEmail, submittedEmail, webVars, extractVars, credVars, tieVars, repeatVars, promptVars>>
    /\ UNCHANGED mainVars

\* line 43: login() passes config.email to enterEmail
SubmitEmail ==
    /\ imapUser # Empty
    /\ submittedEmail = Empty
    /\ submittedEmail' = cfgEmail
    /\ UNCHANGED <<cfgEmail, imapUser, webVars, extractVars, credVars, tieVars, repeatVars, promptVars>>
    /\ UNCHANGED mainVars

\* main() accepts every non-empty EMAIL (lines 89, 96)
TagInit ==
    /\ MainIdle
    /\ cfgEmail \in Strings(EmailChars, MaxEmailLen) \ {Empty}
    /\ imapUser = Empty
    /\ submittedEmail = Empty
    /\ WebIdle
    /\ ExtractIdle
    /\ CredIdle
    /\ TieIdle
    /\ LateIdle

TagNext == Construct \/ SubmitEmail

TagSpec == TagInit /\ [][TagNext]_vars

\* ---- WebAutomation.enterEmail and enterCode, the guide lines 594-746 -----
\* guide lines 599-605
emailSelectors ==
    <<"input[type=\"email\"]", "input[name=\"email\"]", "input[id*=\"email\"]",
      "input[placeholder*=\"email\" i]", "input[placeholder*=\"Email\" i]">>

\* guide lines 672-679
codeSelectors ==
    <<"input[inputmode=\"numeric\"]", "input[type=\"number\"]",
      "input[type=\"text\"][name*=\"code\" i]", "input[type=\"text\"][id*=\"code\" i]",
      "input[placeholder*=\"code\" i]", "input[placeholder*=\"magic\" i]">>

\* the elements of a list
Elements(list) == {list[i] : i \in 1..Len(list)}

\* the substrings of the URL that lines 619 and 778 look for
LoginPaths == {"/login", "/signin"}

\* the URL test that never sees a login page
OnLoginPageNever(url) == FALSE

\* guide line 619: url.includes('/login') || url.includes('/signin')
OnLoginPage(url) == "/login" \in url \/ "/signin" \in url

\* the loop that keeps the last selector that matches
LastMatch(list, matching) ==
    IF Elements(list) \cap matching = {} THEN "none"
    ELSE list[CHOOSE i \in 1..Len(list) :
                /\ list[i] \in matching
                /\ \A k \in (i + 1)..Len(list) : list[k] \notin matching]

\* guide lines 607-615, 682-695: waitForSelector is tried on each selector in
\* list order and the loop breaks at the first that matches
FirstMatch(list, matching) ==
    IF Elements(list) \cap matching = {} THEN "none"
    ELSE list[Least({i \in 1..Len(list) : list[i] \in matching})]

\* guide lines 630-636
emailSubmitSelectors ==
    <<"button[type=\"submit\"]", "button:has-text(\"Continue\")",
      "button:has-text(\"Send\")", "button:has-text(\"Next\")",
      "[role=\"button\"]:has-text(\"Continue\")">>

\* guide lines 715-721
codeSubmitSelectors ==
    <<"button[type=\"submit\"]", "button:has-text(\"Continue\")",
      "button:has-text(\"Verify\")", "button:has-text(\"Login\")",
      "[role=\"button\"]:has-text(\"Continue\")">>

\* guide lines 752-758: the default of the parameter successIndicators
successIndicators ==
    <<"[data-testid=\"workspace\"]", ".workspace", "[aria-label*=\"workspace\" i]",
      "nav", "header">>

\* guide lines 639-651, 724-736: the button that ends the loop: page.$ found
\* it and its click() did not throw.  A click that throws is caught and the
\* next selector is tried.
Clicked(list, buttons, fails) == FirstMatch(list, buttons \ fails)

\* the buttons on which click() was called, in list order: those page.$
\* found, up to the one that ended the loop
Tried(list, buttons, fails) ==
    LET ok == {i \in 1..Len(list) : list[i] \in buttons \ fails}
        last == IF ok = {} THEN Len(list) ELSE Least(ok)
    IN SelectSeq(SubSeq(list, 1, last), LAMBDA sel : sel \in buttons)

\* Enter pressed whether or not a button was clicked
PressEnterAlways(clicked, selector) == selector

\* guide lines 653-657, 738-742: if (!submitted) page.press(selector, 'Enter')
PressEnter(clicked, selector) == IF clicked = "none" THEN selector ELSE "none"

\* guide lines 645, 656, 730, 741: what the method logs about the submission
SubmitBy(clicked) == IF clicked # "none" THEN "click" ELSE "enter"

\* guide lines 638-657, 723-742: the submission, after the input was filled;
\* Enter goes to the selector given
Submit(w, list, selector) ==
    LET clicked == Clicked(list, page.buttons, page.clickFails) IN
    [w EXCEPT !.tried = Tried(list, page.buttons, page.clickFails),
              !.clicked = clicked,
              !.pressed = PressEnter(clicked, selector),
              !.submit = SubmitBy(clicked)]

\* the warning replaced by an error
CouldNotConfirmThrows(w) == [w EXCEPT !.result = "error"]

\* guide lines 783-784: the warning is logged and the method returns
CouldNotConfirm(w) == [w EXCEPT !.result = "returned", !.log = "warning"]

\* guide lines 594-662.  The input is filled through the first selector of
\* the list (emailSelectors.find(s => emailInput), line 627), whichever
\* selector found it; page.fill times out when that selector matches nothing.
enterEmail ==
    /\ web = Called("enterEmail")
    /\ LET found == FirstMatch(emailSelectors, page.emailSel) IN
       IF found = "none"
       THEN IF ~OnLoginPage(page.url)
            THEN web' = [web EXCEPT !.result = "false"]
            ELSE web' = [web EXCEPT !.result = "notFoundError"]
       ELSE IF emailSelectors[1] \notin page.emailSel
            THEN web' = [web EXCEPT !.result = "timeoutError"]
            ELSE web' = Submit([web EXCEPT !.result = "true",
                                           !.filled = emailSelectors[1]],
                               emailSubmitSelectors, emailSelectors[1])
    /\ UNCHANGED <<page, tagVars, extractVars, credVars, tieVars, repeatVars, promptVars>>
    /\ UNCHANGED mainVars

\* guide lines 667-746
enterCode ==
    /\ web = Called("enterCode")
    /\ LET foundSelector == FirstMatch(codeSelectors, page.codeSel) IN
       IF foundSelector = "none"
       THEN web' = [web EXCEPT !.result = "notFoundError"]
       ELSE web' = Submit([web EXCEPT !.result = "ok", !.filled = foundSelector],
                          codeSubmitSelectors, foundSelector)
    /\ UNCHANGED <<page, tagVars, extractVars, credVars, tieVars, repeatVars, promptVars>>
    /\ UNCHANGED mainVars

\* guide lines 751-784, on a page that exists (line 760): the indicators are
\* awaited in list order and the first that appears ends the method; a
\* waitForSelector that times out is caught; then the URL is looked at
waitForLoginSuccess ==
    /\ web = Called("waitForLoginSuccess")
    /\ LET found == FirstMatch(successIndicators, page.success) IN
       IF found # "none"
       THEN web' = [web EXCEPT !.result = "returned", !.indicator = found,
                               !.log = "successful"]
       ELSE IF ~OnLoginPage(page.url)
       THEN web' = [web EXCEPT !.result = "returned", !.log = "urlChanged"]
       ELSE web' = CouldNotConfirm(web)
    /\ UNCHANGED <<page, tagVars, extractVars, credVars, tieVars, repeatVars, promptVars>>
    /\ UNCHANGED mainVars

\* the submit buttons of a page: those page.$ finds among the selectors of
\* the list, and those of them whose click() throws
Buttons(list) ==
    {bf \in (SUBSET Elements(list)) \X (SUBSET Elements(list)) : bf[2] \subseteq bf[1]}

\* the pages each method may be called on
WebPages ==
    \/ /\ web = Called("enterEmail")
       /\ page \in {[emailSel |-> e, url |-> u, codeSel |-> {}, buttons |-> bf[1],
                      clickFails |-> bf[2], success |-> {}] :
                         e \in SUBSET Elements(emailSelectors), u \in SUBSET LoginPaths,
                         bf \in Buttons(emailSubmitSelectors)}
    \/ /\ web = Called("enterCode")
       /\ page \in {[emailSel |-> {}, url |-> {}, codeSel |-> c, buttons |-> bf[1],
                      clickFails |-> bf[2], success |-> {}] :
                         c \in SUBSET Elements(codeSelectors),
                         bf \in Buttons(codeSubmitSelectors)}
    \/ /\ web = Called("waitForLoginSuccess")
       /\ page \in [emailSel : {{}}, url : SUBSET LoginPaths, codeSel : {{}},
                     buttons : {{}}, clickFails : {{}},
                     success : SUBSET Elements(successIndicators)]

WebSpecInit ==
    MainIdle /\ TagIdle /\ ExtractIdle /\ CredIdle /\ TieIdle /\ LateIdle /\ WebPages

WebNext == enterEmail \/ enterCode \/ waitForLoginSuccess

WebSpec == WebSpecInit /\ [][WebNext]_vars

\* ---- the extraction of findCode, src/email-monitor.ts lines 286-303 ------
Digits == {"0", "1", "2", "3", "4", "5", "6", "7", "8", "9"}

\* the substring "Expensify magic code:" of a subject, as one character
Label == "L"

\* the subject of the comment of line 286: "Expensify magic code: 147826"
ExampleSubject == <<Label, " ", "1", "4", "7", "8", "2", "6">>

SubjectChars == {Label, " ", "1", "x"}
TextChars == {"1", "2", "x"}

\* the positions at which /Expensify magic code:\s*(\d+)/ matches: the label,
\* any white space, then a digit
LabelMatches(subject) ==
    {i \in 1..Len(subject) :
        /\ subject[i] = Label
        /\ \E d \in (i + 1)..Len(subject) :
              /\ subject[d] \in Digits
              /\ \A k \in (i + 1)..(d - 1) : subject[k] = " "}

\* lines 287-293: codeMatch[1], the digits captured by the first match, taken
\* as far as they go; Empty when the subject does not match
codeMatch(subject) ==
    IF LabelMatches(subject) = {} THEN Empty
    ELSE LET i == Least(LabelMatches(subject))
             d == Least({k \in (i + 1)..Len(subject) : subject[k] \in Digits})
             e == Least({k \in d..Len(subject) :
                            k = Len(subject) \/ subject[k + 1] \notin Digits})
         IN SubSeq(subject, d, e)

\* the positions at which /(\d{6})/ matches
SixDigitsAt(text) ==
    {i \in 1..(Len(text) - CodeLen + 1) :
        \A k \in i..(i + CodeLen - 1) : text[k] \in Digits}

\* lines 298-300: bodyCodeMatch[1], the first six consecutive digits
bodyCodeMatch(text) ==
    IF SixDigitsAt(text) = {} THEN Empty
    ELSE LET i == Least(SixDigitsAt(text)) IN SubSeq(text, i, i + CodeLen - 1)

\* line 297: parsed.text || parsed.html || ""
BodyText(msg) == IF msg.text # Empty THEN msg.text ELSE msg.html

\* the body rule tried before the subject rule
extractCodeBodyFirst(msg) ==
    IF bodyCodeMatch(BodyText(msg)) # Empty
    THEN [done |-> TRUE, code |-> bodyCodeMatch(BodyText(msg)), rule |-> "body"]
    ELSE IF codeMatch(msg.subject) # Empty
    THEN [done |-> TRUE, code |-> codeMatch(msg.subject), rule |-> "subject"]
    ELSE [done |-> TRUE, code |-> Empty, rule |-> "none"]

\* lines 286-303: the subject rule, and the body rule when it does not match
extractCode(msg) ==
    IF codeMatch(msg.subject) # Empty
    THEN [done |-> TRUE, code |-> codeMatch(msg.subject), rule |-> "subject"]
    ELSE IF bodyCodeMatch(BodyText(msg)) # Empty
    THEN [done |-> TRUE, code |-> bodyCodeMatch(BodyText(msg)), rule |-> "body"]
    ELSE [done |-> TRUE, code |-> Empty, rule |-> "none"]

\* the body handler reaches line 286 with a parsed message
Extract ==
    /\ ~extraction.done
    /\ extraction' = extractCode(message)
    /\ UNCHANGED <<message, tagVars, webVars, credVars, tieVars, repeatVars, promptVars>>
    /\ UNCHANGED mainVars

\* a body that is six digits and nothing else
SixTwos == [i \in 1..CodeLen |-> "2"]

Subjects == Strings(SubjectChars, MaxSubject) \cup {ExampleSubject}
Texts == Strings(TextChars, MaxText)
SampleSubjects == {Empty, <<Label, "1">>}
SampleBodies == {Empty, <<"x">>, SixTwos}

\* the parsed messages: each of subject, text and html ranges over all its
\* strings beside samples of the two others
ExtractInputs ==
    [subject : Subjects, text : SampleBodies, html : SampleBodies]
    \cup [subject : SampleSubjects, text : Texts, html : SampleBodies]
    \cup [subject : SampleSubjects, text : {Empty, <<"x">>}, html : Texts]

ExtractInit ==
    /\ MainIdle
    /\ TagIdle
    /\ WebIdle
    /\ CredIdle
    /\ TieIdle
    /\ LateIdle
    /\ message \in ExtractInputs
    /\ extraction = NotExtracted

ExtractNext == Extract

ExtractSpec == ExtractInit /\ [][ExtractNext]_vars

\* ---- getEmailPassword, src/credentials.ts lines 136-234 ------------------
\* a run of AppPasswordLen - 1 characters that are neither space nor quote,
\* as one symbol
Run == "c.."

\* a character, a run of characters, the space and the two quotes
PwChars == {"c", Run, " ", "\"", "'"}

PwStrings == Strings(PwChars, MaxPwLen)

\* s.length
RECURSIVE Length(_)
Length(s) ==
    IF s = Empty THEN 0
    ELSE (IF Head(s) = Run THEN AppPasswordLen - 1 ELSE 1) + Length(Tail(s))

\* s.trim()
RECURSIVE Trim(_)
Trim(s) ==
    IF s = Empty THEN s
    ELSE IF Head(s) = " " THEN Trim(Tail(s))
    ELSE IF s[Len(s)] = " " THEN Trim(SubSeq(s, 1, Len(s) - 1))
    ELSE s

IsSpace(c) == c = " "
NotSpace(c) == ~IsSpace(c)

\* s.replace(/\s/g, "")
RemoveSpaces(s) == SelectSeq(s, NotSpace)

\* lines 149-154: a pair of equal quotes around the value is removed
Unquote(s) ==
    IF s # Empty /\ s[1] = s[Len(s)] /\ s[1] \in {"\"", "'"}
    THEN Trim(SubSeq(s, 2, Len(s) - 1))
    ELSE s

\* lines 147-156: cleanPassword
CleanEnv(value) == RemoveSpaces(Unquote(Trim(value)))

\* lines 40-45: getFromKeychain resolves the trimmed output of the security
\* command, or null (Empty) when it failed or printed nothing
getFromKeychain(entry) == Trim(entry)

\* the keychain consulted on every platform, whatever useKeychain says
KeychainAlways(useKeychain, platform) == TRUE

\* line 182: useKeychain && process.platform === "darwin"
KeychainEnabled(useKeychain, platform) == useKeychain /\ platform = "darwin"

\* lines 158-173, 187-200: the value is returned, with a warning when its
\* length is not 16
Return(value, from) ==
    [cred EXCEPT !.pc = "returned", !.secret = value, !.source = from,
                 !.warned = (Length(value) # AppPasswordLen)]

\* lines 140-183, 205-216: the variable is read; the keychain is asked or
\* the prompt is shown when it is unset or blank
GetEmailPassword ==
    /\ cred.pc = "start"
    /\ LET envPassword == credIn.APP_PASSWORD
           read == [cred EXCEPT !.consulted = <<"env">>]
       IN IF envPassword # Empty /\ Trim(envPassword) # Empty
          THEN cred' = [Return(CleanEnv(envPassword), "env") EXCEPT !.consulted = <<"env">>]
          ELSE IF KeychainEnabled(credIn.useKeychain, credIn.platform)
          THEN cred' = [read EXCEPT !.pc = "keychain", !.consulted = <<"env", "keychain">>]
          ELSE cred' = [read EXCEPT !.pc = "prompt", !.consulted = <<"env", "prompt">>]
    /\ UNCHANGED <<credIn, tagVars, webVars, extractVars, tieVars, repeatVars, promptVars>>
    /\ UNCHANGED mainVars

\* lines 183-216: getFromKeychain resolved
KeychainClosed(entry) ==
    /\ cred.pc = "keychain"
    /\ LET keychainPassword == getFromKeychain(entry) IN
       IF keychainPassword # Empty
       THEN cred' = [Return(RemoveSpaces(Trim(keychainPassword)), "keychain")
                        EXCEPT !.keychainHit = TRUE]
       ELSE cred' = [cred EXCEPT !.pc = "prompt",
                                 !.consulted = Append(cred.consulted, "prompt")]
    /\ UNCHANGED <<credIn, tagVars, webVars, extractVars, tieVars, repeatVars, promptVars>>
    /\ UNCHANGED mainVars

\* lines 109-114, 214-233: Enter ends the prompt; the value typed is kept as
\* it is, and the question about the keychain follows on macOS
PromptEntered(typed) ==
    /\ cred.pc = "prompt"
    /\ cred' = [cred EXCEPT !.secret = typed, !.source = "prompt",
                            !.pc = IF credIn.useKeychain /\ credIn.platform = "darwin"
                                   THEN "storePrompt" ELSE "returned"]
    /\ UNCHANGED <<credIn, tagVars, webVars, extractVars, tieVars, repeatVars, promptVars>>
    /\ UNCHANGED mainVars

\* lines 104-108: Ctrl+C or Ctrl+D at a prompt ends the process
PromptAborted ==
    /\ cred.pc \in {"prompt", "storePrompt"}
    /\ cred' = [cred EXCEPT !.pc = "exited"]
    /\ UNCHANGED <<credIn, tagVars, webVars, extractVars, tieVars, repeatVars, promptVars>>
    /\ UNCHANGED mainVars

\* lines 219-233: the answer to "Store password in macOS Keychain?", the
\* outcome of storeInKeychain when it is "y", and the return
StoreAnswered(yes, ok) ==
    /\ cred.pc = "storePrompt"
    /\ cred' = [cred EXCEPT !.pc = "returned", !.stored = (yes /\ ok)]
    /\ UNCHANGED <<credIn, tagVars, webVars, extractVars, tieVars, repeatVars, promptVars>>
    /\ UNCHANGED mainVars

CredInit ==
    /\ MainIdle
    /\ TagIdle
    /\ WebIdle
    /\ ExtractIdle
    /\ TieIdle
    /\ LateIdle
    /\ credIn \in [APP_PASSWORD : PwStrings, useKeychain : BOOLEAN,
                    platform : {"darwin", "linux"}]
    /\ cred = NotResolved

CredNext ==
    \/ GetEmailPassword
    \/ \E entry \in PwStrings : KeychainClosed(entry)
    \/ \E typed \in PwStrings : PromptEntered(typed)
    \/ PromptAborted
    \/ \E yes, ok \in BOOLEAN : StoreAnswered(yes, ok)

CredSpec == CredInit /\ [][CredNext]_vars

\* ---- one cycle executed twice, src/email-monitor.ts lines 201-334 ---------
\* The fetch emits the same messages in the same order in both executions;
\* the body handlers (await uidPromise, await simpleParser) complete in an
\* order of their own in each.

\* lines 246-334: the handler of message u completes in execution r: the
\* candidate is pushed when it qualifies, pendingCount is decremented and,
\* at 0, validEmails is sorted and its first element is the winner
Parsed(r, u) ==
    /\ u \in runs[r].pending
    /\ LET m == fetched[u]
           code == ExtractCode(u, m.kind)
           valid == IF Qualifies(code, m.date)
                    THEN Append(runs[r].valid, [uid |-> u, code |-> code, date |-> m.date])
                    ELSE runs[r].valid
           left == runs[r].pending \ {u}
       IN runs' = [runs EXCEPT ![r] =
                      IF MayDecide(Cardinality(left), FALSE) /\ Len(valid) > 0
                      THEN [valid |-> SortByDateDesc(valid), pending |-> left,
                            best |-> SortByDateDesc(valid)[1].uid]
                      ELSE [valid |-> valid, pending |-> left, best |-> 0]]
    /\ UNCHANGED <<fetched, tagVars, webVars, extractVars, credVars, repeatVars, promptVars>>
    /\ UNCHANGED mainVars

\* the messages a fetch may emit: dated or not, with a code or without
TieInit ==
    /\ MainIdle
    /\ TagIdle
    /\ WebIdle
    /\ ExtractIdle
    /\ CredIdle
    /\ LateIdle
    /\ fetched \in UNION {[1..n -> [date : 0..MaxDate, kind : {"subject", "none"}]] :
                              n \in 1..MaxMsgs}
    /\ runs = [r \in 1..2 |-> [valid |-> <<>>, pending |-> 1..Len(fetched), best |-> 0]]

TieNext == \E r \in 1..2 : \E u \in UIDs : Parsed(r, u)

TieSpec == TieInit /\ [][TieNext]_vars

\* ---- promptPassword, src/credentials.ts lines 83-128 ----------------------
\* the keys of one "data" event each: two regular characters, Backspace
\* (code 127 or 8), Enter (13 or 10) and Ctrl+C (3; Ctrl+D, 4, is handled alike)
RegularKeys == {"a", "y"}
Keys == RegularKeys \cup {"Backspace", "Enter", "CtrlC"}

\* lines 97, 99: `let password = ""` and the promise of the call, pending
NewListener == [password |-> <<>>, settled |-> FALSE, value |-> <<>>]

\* lines 99-125: the listener of one call handles the key k; resolve() has
\* no effect on a promise that has settled
OnData(l, k) ==
    IF k = "Enter"
    THEN [l EXCEPT !.settled = TRUE, !.value = IF l.settled THEN l.value ELSE l.password]
    ELSE IF k = "Backspace"
    THEN [l EXCEPT !.password = IF Len(@) > 0 THEN SubSeq(@, 1, Len(@) - 1) ELSE @]
    ELSE [l EXCEPT !.password = Append(@, k)]

\* what that listener writes to process.stdout: "*" for a regular
\* character, "erase" for backspace-space-backspace, "newline" for the line feed
Echo(l, k) ==
    IF k = "Enter" THEN <<"newline">>
    ELSE IF k = "Backspace" THEN (IF Len(l.password) > 0 THEN <<"erase">> ELSE <<>>)
    ELSE <<"*">>

\* process.stdin emits "data": its listeners run in the order they were added
RECURSIVE EchoAll(_, _)
EchoAll(ls, k) ==
    IF ls = <<>> THEN <<>> ELSE Echo(Head(ls), k) \o EchoAll(Tail(ls), k)

\* lines 84-99: a promptPassword call writes its message and adds its "data"
\* listener with stdin.on; no line of the file removes a listener.
\* getEmailPassword calls it for the password (lines 214-216) and, on macOS
\* with the keychain in use, once more for the "store?" question (219-222).
promptPassword ==
    /\ ~tty.exited
    /\ ~tty.open
    /\ tty.calls < 2
    /\ stdinListeners' = Append(stdinListeners, NewListener)
    /\ tty' = [calls |-> tty.calls + 1, open |-> TRUE, typed |-> <<>>, out |-> <<>>,
               exited |-> FALSE]
    /\ UNCHANGED <<tagVars, webVars, extractVars, credVars, tieVars, repeatVars>>
    /\ UNCHANGED mainVars

\* the user presses key k while a prompt is shown (lines 99-125): Ctrl+C
\* ends the process in the first listener, any other key is handled by
\* every listener on stdin
StdinData(k) ==
    /\ tty.open
    /\ k \in RegularKeys \cup {"Backspace"} => Len(tty.typed) < MaxKeys
    /\ IF k = "CtrlC"
       THEN /\ tty' = [tty EXCEPT !.open = FALSE, !.exited = TRUE]
            /\ UNCHANGED stdinListeners
       ELSE /\ stdinListeners' =
                  [i \in DOMAIN stdinListeners |-> OnData(stdinListeners[i], k)]
            /\ tty' = [tty EXCEPT !.open = (k # "Enter"),
                                  !.typed = IF k = "Enter" THEN @ ELSE Append(@, k),
                                  !.out = @ \o EchoAll(stdinListeners, k)]
    /\ UNCHANGED <<tagVars, webVars, extractVars, credVars, tieVars, repeatVars>>
    /\ UNCHANGED mainVars

PromptInit ==
    MainIdle /\ TagIdle /\ WebIdle /\ ExtractIdle /\ CredIdle /\ TieIdle /\ LateIdle

PromptNext == promptPassword \/ \E k \in Keys : StdinData(k)

PromptSpec == PromptInit /\ [][PromptNext]_vars

\* ---- a second waitForCode call on the same mailbox ------------------------
\* src/email-monitor.ts lines 118-128, 152-153: the caller of the api mode
\* calls waitForCode again on the same EmailMonitor, with the same
\* arguments, after the first call returned a code and the server answered
\* its addFlags command.  The connection is reused and the executor of the
\* new promise runs checkEmail at once.
WaitForCodeAgain ==
    /\ Alive
    /\ mode = "api"
    /\ wfc = "code"
    /\ flagCmds # <<>>
    /\ flagDone = Len(flagCmds)
    /\ consumed = {}
    /\ consumed' = {flagCmds[Len(flagCmds)]}
    /\ WaitForCode
    /\ UNCHANGED <<mode, cfgOk, sinceTime, tagVars, webVars, extractVars, credVars, tieVars,
                   promptVars>>
    /\ UNCHANGED <<now, mailbox, procVars, connected, connectMsg, ends, fetchVars, flagVars>>

RepeatNext == Next \/ WaitForCodeAgain

RepeatSpec == Init /\ [][RepeatNext]_vars

\* ---- properties ----------------------------------------------------------
\* fetched messages that parse, carry a code and have a date
Yielding ==
    {u \in results : /\ mailbox[u].kind # "bad"
                     /\ ExtractCode(u, mailbox[u].kind) # NoCode
                     /\ mailbox[u].date # NoDate}

\* the returned code is the code of a latest message of the set S
ReturnedLatestOf(S) ==
    \E u \in S : /\ ExtractCode(u, mailbox[u].kind) = wfcCode
                 /\ \A v \in S : mailbox[v].date <= mailbox[u].date

\* C1 as stated: the code waitForCode returns is the code of the fetched
\* message with the greatest timestamp among all fetched messages that yield
\* a code, whatever the order of the callbacks.
C1_LatestOfAllFetched == wfc = "code" => ReturnedLatestOf(Yielding)

\* C1 (amended): the code waitForCode returns is the code of the message with
\* the greatest timestamp among the fetched messages that yield a code and
\* whose UID arrived before the fallback timer fired; once a code has been
\* returned the result never changes while the process lives.
C1_LatestOfProcessed ==
    /\ [](wfc = "code" => ReturnedLatestOf({u \in Yielding : phase[u] = "done"}))
    /\ [][(wfc = "code" /\ Alive') => (wfc' = "code" /\ wfcCode' = wfcCode)]_vars

\* two dated candidates with different timestamps yielded codes and the
\* newer one's code was returned
C1_Witness ==
    /\ wfc = "code"
    /\ Len(validEmails) >= 2
    /\ validEmails[1].date > validEmails[2].date
    /\ wfcCode = validEmails[1].code

\* C2: with sinceTime set, a message dated strictly before sinceTime is never
\* flagged read and its code is never returned.
C2_StaleNeverSelected ==
    sinceTime # NoTime =>
        \A u \in 1..Len(mailbox) :
            (mailbox[u].date # NoDate /\ mailbox[u].date < sinceTime) =>
                /\ \A i \in 1..Len(flagCmds) : flagCmds[i] # u
                /\ wfc = "code" => wfcCode # ExtractCode(u, mailbox[u].kind)

\* a stale message carrying a code and a message dated exactly sinceTime were
\* both processed, and the code of the latter was returned
C2_Witness ==
    /\ sinceTime # NoTime
    /\ wfc = "code"
    /\ \E u, v \in results :
        /\ mailbox[u].date # NoDate /\ mailbox[u].date < sinceTime
        /\ mailbox[u].kind = "subject" /\ phase[u] = "done"
        /\ mailbox[v].date = sinceTime
        /\ wfcCode = ExtractCode(v, mailbox[v].kind)

\* C3: the code login() submits to the browser never comes from a message
\* that was already in the mailbox, unread, before the login attempt started.
C3_NoStaleCodeSubmitted ==
    enteredCode # NoCode =>
        \A u \in 1..Len(mailbox) :
            ExtractCode(u, mailbox[u].kind) = enteredCode => ~mailbox[u].old

\* no message of the mailbox yields a code that waitForCode would accept
NoQualifyingCandidate ==
    \A u \in 1..Len(mailbox) :
        \/ mailbox[u].kind \in {"none", "bad"}
        \/ mailbox[u].date = NoDate
        \/ IsStale(mailbox[u].date, sinceTime)

\* C4: when no qualifying candidate appears, waitForCode has failed by the
\* time maxWaitTime, one poll interval and the round-trips of one cycle have
\* elapsed since the call: it is not still pending after that.
C4_FailsByDeadline ==
    (wfc = "pending" /\ NoQualifyingCandidate) => now - startTime <= Horizon

\* every timeout happens after maxWaitTime and no later than maxWaitTime plus
\* one poll interval plus the duration of the last cycle
TimeoutBound ==
    wfc = "timeout" =>
        /\ settledAt - startTime > MaxWaitTime
        /\ settledAt - startTime <= MaxWaitTime + PollInterval + (cycleEnd - cycleStart)

\* C5: every waitForCode invocation eventually settles (code, timeout or
\* mailbox error) whatever the fetch delivers, and once settled its outcome
\* never changes.
C5_SettlesExactlyOnce ==
    /\ (wfc = "pending") ~> (wfc # "pending")
    /\ [][(wfc \notin {"idle", "connecting", "pending"} /\ Alive') => wfc' = wfc]_vars

\* C6: every waitForCode call that returned a code has issued exactly one
\* flag command, for the message the code came from, whether the subject
\* rule or the body rule produced the code.
C6_OneFlagPerCode ==
    wfc = "code" =>
        /\ Len(flagCmds) = 1
        /\ ExtractCode(flagCmds[1], mailbox[flagCmds[1]].kind) = wfcCode

\* C7: a waitForCode call that ended in a timeout or a mailbox error has
\* issued no flag command, in any of its cycles.
C7_NoFlagOnFailure ==
    wfc \notin {"idle", "connecting", "pending", "code"} => flagCmds = <<>>

\* the fetch failed after a candidate with a code had been found, and the
\* last message was processed after the failure
C7_Witness ==
    /\ wfc = "imapError"
    /\ fetchOver = "error"
    /\ pendingCount = 0
    /\ Len(validEmails) > 0

\* C8: at most one flag command is ever issued; it is issued when no fetched
\* message is still being processed, and its target is the winner of the
\* resolving cycle: the latest of the candidates that yielded a code.
C8_OnlyWinnerFlagged ==
    /\ Len(flagCmds) <= 1
    /\ \A i \in 1..Len(flagAt) : flagAt[i] = 0
    /\ (flagCmds # <<>> /\ Alive) =>
          /\ wfc = "code"
          /\ flagCmds[1] \in Yielding
          /\ phase[flagCmds[1]] = "done"
          /\ ~IsStale(mailbox[flagCmds[1]].date, sinceTime)
          /\ ExtractCode(flagCmds[1], mailbox[flagCmds[1]].kind) = wfcCode
          /\ \A j \in 1..Len(validEmails) :
                validEmails[j].date <= mailbox[flagCmds[1]].date

\* the winner was flagged in a cycle that also processed another message to
\* its end (an older, stale, code-less, unparseable or skipped one)
C8_Witness ==
    /\ flagCmds # <<>>
    /\ wfc = "code"
    /\ Cardinality(results) >= 2
    /\ \E u \in results : u # flagCmds[1] /\ phase[u] \in {"done", "skipped"}

\* C9: whenever login() has ended, by returning or by throwing, the
\* EmailMonitor is disconnected.
C9_DisconnectedAfterLogin == loginPc \in {"returned", "threw"} => ~connected

\* login() ended by the mailbox timeout, after having been connected
C9_Witness == loginPc = "threw" /\ raisedError = "timeout" /\ connects = 1

\* C10: when the process exits with code 1 after login() was started, the
\* mailbox is disconnected, the browser is not open, and the error login()
\* threw is the error of the failing component.
C10_TeardownBeforeExit ==
    (exitCode = 1 /\ loginPc # "none") =>
        /\ ~connected
        /\ browser # "open"
        /\ loginError # "none"
        /\ loginError = raisedError

\* the process exited with code 1 after the code field was not found: the
\* browser had been opened and the mailbox connected
C10_Witness ==
    /\ exitCode = 1
    /\ browser = "closed"
    /\ raisedError = "notFoundError"
    /\ enteredCode = NoCode
    /\ flagCmds # <<>>

C17_DistinctErrorKinds ==
    LET surfaced == IF mode = "api" THEN wfc ELSE raisedError IN
    /\ connectMsg # NoErrorEvent =>
          /\ IndicatesAppPassword(connectMsg) => surfaced = "appPasswordError"
          /\ (IndicatesAuthFailure(connectMsg) /\ ~IndicatesAppPassword(connectMsg))
                => surfaced = "authenticationError"
          /\ (~IndicatesAuthFailure(connectMsg) /\ ~IndicatesAppPassword(connectMsg))
                => surfaced = "connectionError"
          /\ loginError = (IF mode = "api" THEN "none" ELSE surfaced)
    /\ (wfc = "timeout" \/ raisedError = "timeout") =>
          /\ connectMsg = NoErrorEvent
          /\ connects = 1
          /\ cycles > 0
    /\ surfaced \in {"appPasswordError", "authenticationError", "connectionError"}
          => connectMsg # NoErrorEvent

\* login() failed on a connection error whose message indicates both an
\* application password requirement and an authentication failure
C17_Witness ==
    /\ loginPc = "threw"
    /\ IndicatesAppPassword(connectMsg)
    /\ IndicatesAuthFailure(connectMsg)
    /\ raisedError = "appPasswordError"

\* C13: when the configured address is local+tag@rest, with a non-empty tag
\* and no "+" or "@" in local, the IMAP user is local@rest; an address
\* without "+" is the IMAP user as it is; and the address submitted to the
\* login page is always the configured address.
C13_TagStrippedForMailboxOnly ==
    /\ imapUser # Empty =>
          /\ \A i, j \in 1..Len(cfgEmail) :
                ( /\ cfgEmail[i] = "+" /\ cfgEmail[j] = "@" /\ i + 1 < j
                  /\ \A k \in 1..(j - 1) : cfgEmail[k] # "@"
                  /\ \A k \in 1..(i - 1) : cfgEmail[k] # "+" )
                => imapUser = SubSeq(cfgEmail, 1, i - 1) \o SubSeq(cfgEmail, j, Len(cfgEmail))
          /\ (\A k \in 1..Len(cfgEmail) : cfgEmail[k] # "+") => imapUser = cfgEmail
    /\ submittedEmail # Empty => submittedEmail = cfgEmail

\* u+u@u was configured: the mailbox user is u@u and u+u@u was submitted
C13_Witness ==
    /\ cfgEmail = <<"u", "+", "u", "@", "u">>
    /\ imapUser = <<"u", "@", "u">>
    /\ submittedEmail = cfgEmail

\* C12: enterEmail returns false, filling and submitting nothing, when no
\* email selector matches and the URL has neither /login nor /signin; it
\* throws the not-found error when none matches and the URL has one of them;
\* and it returns true only with an input found and filled.
C12_EnterEmailOutcomes ==
    (web.call = "enterEmail" /\ web.result # "pending") =>
        /\ (page.emailSel = {} /\ ~("/login" \in page.url) /\ ~("/signin" \in page.url))
              => (web.result = "false" /\ web.filled = "none" /\ web.submit = "none")
        /\ (page.emailSel = {} /\ ("/login" \in page.url \/ "/signin" \in page.url))
              => web.result = "notFoundError"
        /\ web.result = "true"
              => (page.emailSel # {} /\ web.filled \in page.emailSel /\ web.submit # "none")
        /\ web.result \in {"false", "notFoundError"} => page.emailSel = {}

\* no selector matched on a page whose URL contains /signin: not found
C12_Witness ==
    /\ web.call = "enterEmail"
    /\ web.result = "notFoundError"
    /\ page.url = {"/signin"}

\* C20: enterCode throws the not-found error exactly when no code selector
\* matches, and then fills and submits nothing; otherwise the code is filled
\* through the first selector, in list order, that matches, and submitted.
C20_EnterCodeOutcomes ==
    (web.call = "enterCode" /\ web.result # "pending") =>
        /\ web.result = "notFoundError" <=> page.codeSel = {}
        /\ page.codeSel = {} => (web.filled = "none" /\ web.submit = "none")
        /\ page.codeSel # {} =>
              /\ web.result = "ok"
              /\ web.submit # "none"
              /\ \E i \in 1..Len(codeSelectors) :
                    /\ web.filled = codeSelectors[i]
                    /\ codeSelectors[i] \in page.codeSel
                    /\ \A k \in 1..(i - 1) : codeSelectors[k] \notin page.codeSel

\* the code went into the field found by the third selector while a later
\* selector matched as well
C20_Witness ==
    /\ web.call = "enterCode"
    /\ web.result = "ok"
    /\ web.filled = codeSelectors[3]
    /\ codeSelectors[5] \in page.codeSel

\* the label at i is followed, after white space only, by the digits d..e,
\* which end the subject or are followed by a character that is no digit
LabelledRun(subject, i, d, e) ==
    /\ i < d /\ d <= e
    /\ subject[i] = Label
    /\ \A k \in (i + 1)..(d - 1) : subject[k] = " "
    /\ \A k \in d..e : subject[k] \in Digits
    /\ e = Len(subject) \/ subject[e + 1] \notin Digits

\* C18: when the subject holds the label followed by digits, the extracted
\* code is the digit run after the first such label, whatever the body
\* holds; the body rule yields the code only when the subject has no label
\* followed by digits; "Expensify magic code: 147826" yields 147826.
C18_SubjectTakesPrecedence ==
    extraction.done =>
        LET subject == message.subject
            P == 1..Len(subject)
        IN /\ \A i, d, e \in P :
                 ( /\ LabelledRun(subject, i, d, e)
                   /\ ~\E i2, d2, e2 \in P : i2 < i /\ LabelledRun(subject, i2, d2, e2) )
                 => (extraction.rule = "subject" /\ extraction.code = SubSeq(subject, d, e))
           /\ extraction.rule # "subject"
                 => ~\E i, d, e \in P : LabelledRun(subject, i, d, e)
           /\ subject = ExampleSubject
                 => extraction.code = <<"1", "4", "7", "8", "2", "6">>

\* the subject and the text body both held a code and the subject's was taken
C18_Witness ==
    /\ extraction.done
    /\ message.subject = <<Label, "1">>
    /\ message.text = SixTwos
    /\ extraction.code = <<"1">>

\* the places of text at which a run of exactly six digits stands alone
Standalone(text) ==
    {i \in 1..(Len(text) - CodeLen + 1) :
        /\ \A k \in i..(i + CodeLen - 1) : text[k] \in Digits
        /\ i = 1 \/ text[i - 1] \notin Digits
        /\ i + CodeLen > Len(text) \/ text[i + CodeLen] \notin Digits}

\* C19: when the subject rule does not match, the code is the first
\* standalone run of exactly six digits of the text body or, the text body
\* having none, of the HTML body; six digits out of a longer run are never
\* returned, and there is no code only when neither body has such a run.
C19_FirstStandaloneSixDigits ==
    (extraction.done /\ extraction.rule # "subject") =>
        LET text == message.text
            html == message.html
        IN IF Standalone(text) # {}
           THEN extraction.code = SubSeq(text, Least(Standalone(text)),
                                         Least(Standalone(text)) + CodeLen - 1)
           ELSE IF Standalone(html) # {}
           THEN extraction.code = SubSeq(html, Least(Standalone(html)),
                                         Least(Standalone(html)) + CodeLen - 1)
           ELSE extraction.code = Empty

\* the place of a source in the chain
SourceRank(source) ==
    CASE source = "env" -> 1 [] source = "keychain" -> 2 [] source = "prompt" -> 3

\* APP_PASSWORD holds a character that is not white space
NonBlankEnv == \E k \in 1..Len(credIn.APP_PASSWORD) : credIn.APP_PASSWORD[k] # " "

C15_SecretNotFromEnvironment ==
    cred.pc = "returned" => cred.source # "env"

\* C16: whichever source a returned secret came from, a secret that is not
\* 16 characters long has been warned about.
C16_BadShapeWarned ==
    (cred.pc = "returned" /\ Length(cred.secret) # AppPasswordLen) => cred.warned

\* C21: waitForLoginSuccess on an initialized browser always returns: with
\* the first success indicator, in list order, that is on the page; with no
\* indicator on the page, after the URL test; and when the URL still has
\* /login or /signin it logs a warning and returns all the same.
C21_AwaitSuccessNeverFails ==
    (web.call = "waitForLoginSuccess" /\ web.result # "pending") =>
        /\ web.result = "returned"
        /\ page.success # {} =>
              /\ web.log = "successful"
              /\ \E i \in 1..Len(successIndicators) :
                    /\ web.indicator = successIndicators[i]
                    /\ successIndicators[i] \in page.success
                    /\ \A k \in 1..(i - 1) : successIndicators[k] \notin page.success
        /\ page.success = {} =>
              /\ web.indicator = "none"
              /\ web.log = (IF "/login" \in page.url \/ "/signin" \in page.url
                            THEN "warning" ELSE "urlChanged")

\* no indicator appeared and the URL still has /login: warned and returned
C21_Witness ==
    /\ web.call = "waitForLoginSuccess"
    /\ web.result = "returned"
    /\ web.log = "warning"
    /\ page.success = {}
    /\ page.url = {"/login"}

\* C28: when an email selector matches, enterEmail fills the address through
\* the first selector, in list order, that matches, and the Enter key, when
\* it is used, goes to that same selector.
C28_FillTargetsFoundLocator ==
    (web.call = "enterEmail" /\ web.result # "pending" /\ page.emailSel # {}) =>
        /\ \E i \in 1..Len(emailSelectors) :
              /\ web.filled = emailSelectors[i]
              /\ emailSelectors[i] \in page.emailSel
              /\ \A k \in 1..(i - 1) : emailSelectors[k] \notin page.emailSel
        /\ web.pressed \in {"none", web.filled}

\* the submit selectors of the method that was called
SubmitList == IF web.call = "enterEmail" THEN emailSubmitSelectors ELSE codeSubmitSelectors

\* C29 as stated: after the fill exactly one submit action is performed; the
\* first submit control found in list order is clicked and no other control
\* is tried; Enter is pressed if and only if no control was clicked.
C29_FirstFoundClickedOnly ==
    (web.call \in {"enterEmail", "enterCode"} /\ web.filled # "none") =>
        /\ (web.clicked # "none") # (web.pressed # "none")
        /\ page.buttons # {} =>
              /\ \E i \in 1..Len(SubmitList) :
                    /\ web.clicked = SubmitList[i]
                    /\ SubmitList[i] \in page.buttons
                    /\ \A k \in 1..(i - 1) : SubmitList[k] \notin page.buttons
              /\ web.tried = <<web.clicked>>
        /\ page.buttons = {} => (web.tried = <<>> /\ web.pressed # "none")

\* C29 (amended): after the fill exactly one submit action takes effect; the
\* submit controls found are tried in list order, one whose click fails is
\* passed over, and the first whose click succeeds is the only one clicked;
\* Enter is pressed, on the selector that was filled, if and only if no click
\* succeeded.
C29_OneSubmitAction ==
    (web.call \in {"enterEmail", "enterCode"} /\ web.filled # "none") =>
        /\ (web.clicked # "none") # (web.pressed # "none")
        /\ web.clicked # "none" =>
              \E i \in 1..Len(SubmitList) :
                 /\ web.clicked = SubmitList[i]
                 /\ SubmitList[i] \in page.buttons \ page.clickFails
                 /\ \A k \in 1..(i - 1) : SubmitList[k] \notin page.buttons \ page.clickFails
        /\ \A j \in 1..Len(web.tried) :
              /\ web.tried[j] \in page.buttons
              /\ IF j < Len(web.tried) \/ web.clicked = "none"
                 THEN web.tried[j] \in page.clickFails
                 ELSE web.tried[j] = web.clicked
        /\ web.clicked = "none" => Len(web.tried) = Cardinality(page.buttons)
        /\ web.pressed # "none" <=> page.buttons \subseteq page.clickFails
        /\ web.pressed \in {"none", web.filled}
        /\ web.submit = (IF web.clicked # "none" THEN "click" ELSE "enter")

\* the click on the first button found failed and the second was clicked
C29_Witness ==
    /\ web.call = "enterCode"
    /\ web.result = "ok"
    /\ Len(web.tried) = 2
    /\ web.tried[1] \in page.clickFails
    /\ web.clicked = web.tried[2]
    /\ web.pressed = "none"

\* findCode resolves a cycle in which messages were fetched with no code
NoCodeCycleEnds ==
    /\ cyc = "fetch"
    /\ ~resolved
    /\ resolved'
    /\ validEmails' = <<>>
    /\ fetchOver' = fetchOver

\* C22: when a cycle that fetched messages ends with no candidate that
\* yielded a code, waitForCode stays pending, nothing is flagged and
\* checkEmail is scheduled one poll interval later; when that timer fires
\* before the deadline has passed, another cycle queries the mailbox.
C22_NoCodeCycleRetries ==
    /\ [][NoCodeCycleEnds =>
            /\ wfc' = "pending"
            /\ cyc' = "sleep"
            /\ timerDue' = now + PollInterval
            /\ flagCmds' = flagCmds]_vars
    /\ [][(wfc = "pending" /\ cyc = "sleep" /\ cyc' # "sleep" /\ Alive'
             /\ now - startTime <= MaxWaitTime) =>
            /\ now >= timerDue
            /\ wfc' = "pending"
            /\ cyc' = "openInbox"
            /\ cycles' = cycles + 1]_vars

\* a second cycle has begun after a cycle whose messages yielded no code
C22_Witness ==
    /\ cycles = 2
    /\ cyc = "openInbox"
    /\ results # {}
    /\ resolved
    /\ validEmails = <<>>
    /\ \E u \in results : phase[u] = "done" /\ mailbox[u].kind = "none"

\* a body handler of the fetch has not finished
HandlersRunning == \E u \in UIDs : phase[u] \in {"wait", "body", "parse"}

\* a cycle begins: checkEmail passed the deadline test and calls openInbox
CycleBegins == cyc # "openInbox" /\ cyc' = "openInbox"

\* C23: a cycle begins only at the call, or after the previous cycle ended
\* with no code, every handler of its fetch done, and at least the poll
\* interval has passed since; the mailbox is queried only by a cycle that
\* begins no later than maxWaitTime after the call; and checkEmail run after
\* that rejects with the timeout and queries nothing.
C23_CyclesSequential ==
    /\ [][CycleBegins =>
            /\ ~HandlersRunning
            /\ \/ cyc = "none" /\ cycles = 0
               \/ /\ cyc = "sleep"
                  /\ wfc = "pending"
                  /\ wfcCode = NoCode
                  /\ now - cycleEnd >= PollInterval
            /\ now - startTime' <= MaxWaitTime
            /\ cycles' = cycles + 1]_vars
    /\ [][cycles' # cycles => CycleBegins]_vars
    /\ [][(cyc \in {"search", "fetch"} /\ wfc = "pending") => ~CycleBegins]_vars
    /\ [][(wfc' = "timeout" /\ wfc # "timeout") =>
            /\ cyc = "sleep"
            /\ now - startTime > MaxWaitTime
            /\ cycles' = cycles
            /\ results' = results
            /\ cyc' = "done"]_vars
    /\ [][(wfc = "pending" /\ cyc = "sleep" /\ cyc' # "sleep" /\ Alive'
             /\ now - startTime > MaxWaitTime) => wfc' = "timeout"]_vars

\* two cycles queried the mailbox and the third run of checkEmail timed out
C23_Witness ==
    /\ wfc = "timeout"
    /\ cycles = 2
    /\ settledAt - startTime > MaxWaitTime

\* C24: a connection is opened at most once, only when there is none, and
\* never by a poll cycle: every cycle runs on the connection that exists;
\* the connection is ended at most once, by the disconnect() at the end of
\* login(), which calls imap.end() only when connected and otherwise does
\* nothing.
C24_ConnectedOnceAndReused ==
    /\ [](connects <= 1 /\ ends <= connects)
    /\ [](cycles > 0 => connects = 1)
    /\ [][connects' # connects =>
            /\ ~connected
            /\ connects = 0
            /\ cycles = 0
            /\ wfc = "idle"]_vars
    /\ [][cycles' # cycles => (connected' /\ connects' = connects)]_vars
    /\ [][(ends' # ends \/ (connected /\ ~connected')) =>
            /\ connected
            /\ ~connected'
            /\ ends' = ends + 1
            /\ loginPc' \in {"returned", "threw"}]_vars
    /\ [][(loginPc' \in {"returned", "threw"} /\ loginPc \notin {"returned", "threw"}) =>
            /\ ~connected'
            /\ ends' = (IF connected THEN ends + 1 ELSE ends)]_vars

\* login() polled the mailbox in two cycles on one connection and ended it
C24_Witness ==
    /\ loginPc = "returned"
    /\ cycles = 2
    /\ connects = 1
    /\ ends = 1
    /\ ~connected

\* the positions of login() in the order of its statements
LoginOrder ==
    <<"none", "connect", "init", "navigate", "enterEmail", "waitForCode",
      "waitForLoginSuccess", "returned">>

\* C25: login() goes through its steps in the order connect, init, navigate,
\* enterEmail, waitForCode, enterCode, waitForLoginSuccess, or ends by
\* throwing; waitForCode has not been called and the mailbox has not been
\* queried before enterEmail returned; the code is entered when waitForCode
\* has resolved and no cycle or handler is running, and it is the value
\* waitForCode resolved with; and once a step has failed nothing is entered
\* and no cycle is started.
C25_StepsInOrder ==
    /\ []((mode = "main" /\ loginPc \in {"none", "connect", "init", "navigate", "enterEmail"})
            => (wfc = "idle" /\ cycles = 0 /\ enteredCode = NoCode))
    /\ [](loginPc = "connect" => browser = "none")
    /\ []((loginPc = "waitForLoginSuccess" /\ Alive) =>
            /\ wfc = "code"
            /\ cyc = "done"
            /\ ~HandlersRunning
            /\ enteredCode = wfcCode
            /\ enteredCode # NoCode)
    /\ [](loginPc = "threw" => enteredCode = NoCode)
    /\ [][enteredCode' # enteredCode =>
            /\ loginPc = "waitForCode"
            /\ wfc = "code"
            /\ cyc = "done"
            /\ ~HandlersRunning
            /\ enteredCode' = wfcCode]_vars
    /\ [][loginPc' # loginPc =>
            \/ loginPc' = "threw" /\ loginPc \notin {"none", "returned"}
            \/ \E i \in 1..(Len(LoginOrder) - 1) :
                  loginPc = LoginOrder[i] /\ loginPc' = LoginOrder[i + 1]]_vars
    /\ [][loginPc = "threw" =>
            /\ loginPc' = "threw"
            /\ enteredCode' = enteredCode
            /\ cycles' = cycles
            /\ browser' \in {browser, "closed"}]_vars

\* login() returned after the code of the second cycle had been entered
C25_Witness ==
    /\ loginPc = "returned"
    /\ Alive
    /\ cycles = 2
    /\ enteredCode # NoCode
    /\ enteredCode = wfcCode

\* C26: whenever the process has ended by an interrupt, during login() or
\* after it, the browser is not left open.
C26_InterruptClosesBrowser ==
    (mainPc = "killed" \/ exitCode = 0) => browser # "open"

\* C30: the step in which enterEmail returns false ends the login attempt:
\* waitForCode is not called, no cycle queries the mailbox and login() does
\* not fail.
C30_AlreadyAuthenticatedEndsLogin ==
    [][EnterEmail("alreadyLoggedIn") =>
          /\ wfc' = "idle"
          /\ cycles' = cycles
          /\ loginPc' \notin {"waitForCode", "threw"}]_vars

\* C27: two executions of a cycle on the same messages, emitted by the fetch
\* in the same order, select the same message, whatever the order in which
\* their handlers complete, also when candidates share the greatest date.
C27_TieDecidedByFetchOrder ==
    (runs[1].pending = {} /\ runs[2].pending = {}) => runs[1].best = runs[2].best

\* ---- C31 ------------------------------------------------------------------
\* the messages of the running cycle whose handler has finished
Processed == {u \in results : phase[u] \in {"done", "skipped"}}

\* C31: a fetched message whose UID had not been delivered when its fallback
\* timer fired is skipped: it is not among the candidates, it is not flagged
\* read, it counts as processed (the pending counter is the number of
\* messages not yet processed, and the cycle is decided once it is zero),
\* and a returned code comes from a message that was parsed, never from a
\* skipped one.
C31_UidlessMessageSkipped ==
    /\ \A u \in UIDs : phase[u] = "skipped" =>
          /\ \A i \in 1..Len(validEmails) : validEmails[i].uid # u
          /\ \A i \in 1..Len(flagCmds) : flagCmds[i] # u
          /\ ~mailbox[u].seen
    /\ results # {} => pendingCount = Cardinality(results \ Processed)
    /\ (results # {} /\ Processed = results) => resolved
    /\ (wfc = "code" /\ Alive) =>
          \E u \in Processed :
             /\ phase[u] = "done"
             /\ flagCmds = <<u>>
             /\ wfcCode = ExtractCode(u, mailbox[u].kind)

\* a cycle ended without a code although a fetched message carried a
\* qualifying code: every fetched message was skipped by its fallback timer
C31_Witness ==
    /\ cyc = "sleep"
    /\ results # {}
    /\ \A u \in results : phase[u] = "skipped"
    /\ \E u \in results :
          /\ Qualifies(ExtractCode(u, mailbox[u].kind), mailbox[u].date)
          /\ ~IsStale(mailbox[u].date, sinceTime)
    /\ flagCmds = <<>>

\* ---- C32 ------------------------------------------------------------------
\* C32 as stated: whenever the running cycle has decided, no fetched message
\* is pending any more
C32_DecidedOnlyWhenAllProcessed ==
    (results # {} /\ resolved) => pendingCount = 0

\* the pending counter stays within 0..N, and a cycle decided while a message
\* is pending is one whose fetch emitted "error", which failed the wait
DecidedInOrder ==
    /\ pendingCount \in 0..Cardinality(results)
    /\ (results # {} /\ resolved /\ pendingCount > 0) =>
          /\ fetchOver = "error"
          /\ Alive => wfc = "imapError"
          /\ flagCmds = <<>>

\* C32: a cycle that fetched N messages decides once: the pending counter
\* never leaves 0..N, a code or null is decided only when every fetched
\* message has been processed (the one decision taken earlier is the
\* rejection on a fetch error), and after the decision neither a handler
\* that finishes nor a fetch error changes the outcome or flags a message.
C32_DecidedOnceAfterAll ==
    [][/\ DecidedInOrder
       /\ DecidedInOrder'
       /\ (resolved /\ cyc # "search" /\ Alive' /\ fetchVars' # fetchVars) =>
             /\ resolved'
             /\ UNCHANGED <<wfc, wfcCode, cyc, timerDue, flagCmds>>]_vars

\* the fetch failed after the cycle had decided on a code, and the code stands
C32_Witness ==
    /\ wfc = "code"
    /\ fetchOver = "error"
    /\ pendingCount = 0
    /\ Cardinality(results) = MaxMsgs
    /\ Len(validEmails) = MaxMsgs

\* ---- C33 ------------------------------------------------------------------
\* message u carries an extractable code and has no parseable date
Undated(u) ==
    /\ u \in 1..Len(mailbox)
    /\ mailbox[u].date = NoDate
    /\ ExtractCode(u, mailbox[u].kind) # NoCode

\* the mailbox holds such messages only
OnlyUndated == mailbox # <<>> /\ \A u \in 1..Len(mailbox) : Undated(u)

\* an undated code message is not stale under any sinceTime, yet it is never
\* a candidate, never flagged and never the source of the returned code
UndatedLeftOut ==
    /\ \A since \in 0..StartClock : ~IsStale(NoDate, since)
    /\ \A u \in UIDs : Undated(u) =>
          /\ \A i \in 1..Len(validEmails) : validEmails[i].uid # u
          /\ \A i \in 1..Len(flagCmds) : flagCmds[i] # u
          /\ ~mailbox[u].seen
          /\ wfcCode # ExtractCode(u, mailbox[u].kind)
    /\ OnlyUndated => (wfc # "code" /\ wfcCode = NoCode /\ flagCmds = <<>>)

\* C33: a message with an extractable code and no parseable date is not
\* filtered as stale, with or without sinceTime, but is never a candidate and
\* never selected; while the mailbox holds such messages only, waitForCode
\* returns no code and every cycle that decides schedules the next poll.
C33_UndatedNeverSelected ==
    [][/\ UndatedLeftOut
       /\ UndatedLeftOut'
       /\ (OnlyUndated /\ ~resolved /\ resolved' /\ fetchOver' # "error" /\ Alive') =>
             /\ wfc' = "pending"
             /\ cyc' = "sleep"
             /\ timerDue' = now + PollInterval]_vars

\* with sinceTime given, two cycles parsed every message of a mailbox of
\* undated code messages, and waitForCode timed out
C33_Witness ==
    /\ OnlyUndated
    /\ Len(mailbox) = MaxMsgs
    /\ sinceTime # NoTime
    /\ wfc = "timeout"
    /\ cycles >= 2
    /\ \A u \in UIDs : phase[u] = "done"

\* ---- C35 ------------------------------------------------------------------
\* the waitForCode promise has settled: a code, the timeout or an error
Settled == wfc \notin {"idle", "connecting", "pending"}

\* no poll timer is armed and no cycle is under way
NoCycleAhead == (Settled /\ Alive) => cyc \in {"none", "done"}

\* C35: once a waitForCode invocation has settled it arms no poll timer and
\* starts no cycle, and no step after the settlement issues a search, a
\* fetch or a flag command; handlers of the last fetch that finish later
\* change neither the outcome nor the mailbox commands.
C35_SettledInvocationIsQuiet ==
    [][/\ NoCycleAhead
       /\ NoCycleAhead'
       /\ (Settled /\ Alive') =>
             /\ UNCHANGED <<wfc, wfcCode, cyc, timerDue, cycles, cycleStart>>
             /\ UNCHANGED <<results, flagCmds>>]_vars

\* waitForCode was rejected by a fetch error; afterwards a fallback timer
\* ran out and skipped its message, and the handlers of all fetched messages
\* have finished, one of them with a candidate
C35_Witness ==
    /\ wfc = "imapError"
    /\ fetchOver = "error"
    /\ settledAt < now
    /\ pendingCount = 0
    /\ \E u \in results : phase[u] = "skipped"
    /\ Len(validEmails) > 0
    /\ flagCmds = <<>>

\* ---- C34 ------------------------------------------------------------------
\* C34: a verification message is consumed at most once: the message whose
\* code a waitForCode call returns is not a message whose code an earlier
\* call on the same mailbox returned.
C34_ConsumedAtMostOnce ==
    (wfc = "code" /\ Alive /\ flagCmds # <<>>) => flagCmds[Len(flagCmds)] \notin consumed

\* ---- C36 ------------------------------------------------------------------
\* the characters typed, with the backspaces applied
RECURSIVE Applied(_)
Applied(ks) ==
    IF ks = <<>> THEN <<>>
    ELSE LET before == Applied(SubSeq(ks, 1, Len(ks) - 1))
             k == ks[Len(ks)]
         IN IF k = "Backspace"
            THEN (IF before = <<>> THEN <<>> ELSE SubSeq(before, 1, Len(before) - 1))
            ELSE Append(before, k)

\* the number of elements of s that are in the set S
RECURSIVE CountIn(_, _)
CountIn(s, S) ==
    IF s = <<>> THEN 0 ELSE (IF Head(s) \in S THEN 1 ELSE 0) + CountIn(Tail(s), S)

\* the value a prompt returned is what was typed for it
ReturnsOwnKeys ==
    (tty.calls > 0 /\ ~tty.open /\ ~tty.exited) =>
        /\ stdinListeners[tty.calls].settled
        /\ stdinListeners[tty.calls].value = Applied(tty.typed)

\* C36: each promptPassword call handles only its own keystrokes: the
\* listener of a prompt that has resolved does not react to later input,
\* every regular character typed at a prompt is echoed as exactly one mask
\* character, and the value a prompt returns is the characters typed for it
\* with the backspaces applied.
C36_EachPromptHandlesOwnKeys ==
    /\ \A i \in 1..Len(stdinListeners) :
          (stdinListeners[i].settled /\ i < tty.calls) =>
              stdinListeners[i].password = stdinListeners[i].value
    /\ CountIn(tty.out, {"*"}) = CountIn(tty.typed, RegularKeys)
    /\ ReturnsOwnKeys

====
